---- MODULE Spec2Model ----
(***************************************************************************)
(* A model of the fleet simulation core: the simulation engine with its    *)
(* per-vehicle workers (vehicle-move.go), the kinematic update, the        *)
(* Dijkstra router (map-routing.go) and the connectivity repair of the map *)
(* generator.                                                              *)
(*                                                                         *)
(* Numbers.  The code works on float64.  The model uses integers:          *)
(* progress on an edge is counted in millionths (ProgressOne = 1.0), time  *)
(* in milliseconds, lengths in metres, speeds in metres per second.        *)
(***************************************************************************)
EXTENDS Integers, Sequences, FiniteSets, TLC

VARIABLES
    IsRunning,    \* SimulationEngine.IsRunning
    Vehicles,     \* SimulationEngine.Vehicles: vehicle ID -> vehicle object, or NoVehicle
    Mutex,        \* SimulationEngine.Mutex: [writer: "free" | "stop", readers: Nat]
    wg,           \* SimulationEngine.wg: the WaitGroup counter
    vehicle,      \* the vehicle objects (*entities.Vehicle): object -> [ID, Route, State, StopChan]
    vmutex,       \* Vehicle.Mutex of each object: 0 when free, else the worker slot holding it
    closedChans,  \* the stop channels that have been closed
    workers,      \* the goroutines of RunVehicleGoroutine: slot -> [pc, vehicle, watch, dt, err]
    reader,       \* the GetVehicles handler: [pc, pending, encoding]
    \* a call Dijkstra(g, start, end)
    g,            \* the *entities.MapGraph argument: [Nodes: id -> [Connections], Edges: id -> edge]
    start,        \* the start argument
    end,          \* the end argument
    dist,         \* the local map dist
    prev,         \* the local map prev (a function on the keys it holds)
    unvisited,    \* the keys of the local map unvisited
    routes,       \* the returned slice of routes
    dijkstraPc,   \* the position of the call: "init", "loop", "build", "done"
    \* a call EnsureGraphConnectivity(mg)
    mg,           \* the *entities.MapGraph argument: [Nodes: id -> [Position, Connections], Edges]
    components,   \* the local slice components
    compIdx,      \* the loop variable i (0-based as in the code)
    repairPc,     \* the position of the call: "find", "loop", "done"
    \* a vehicle under repeated calls UpdateVehiclePosition(vehicle, graph, delta)
    kv,           \* the *entities.Vehicle argument: [Route, State]
    kgraph,       \* the *entities.MapGraph argument
    kdelta,       \* the delta argument of the last call, in milliseconds
    kerr,         \* whether the last call returned an error
    khistory,     \* the calls made so far: [calls, ticking]
    \* a call cfg.Generate() or BuildEdgesFromConnections(mg), working on mg
    cfg,          \* the MapGeneratorConfig: [Algorithm, N, K, Radius, EnsureConnectivity, WeightVariation]
    genPc,        \* the position of the call: "generate", "repair", "vary", "build", "done"
    previous,     \* the graph an earlier call cfg.Generate() returned, or NoGraph
    \* a call AssignVehicleRoute(avehicle, graph, config) or
    \* AssignVehicleRouteWithNodes(avehicle, graph, startNode, endNode), where
    \* graph is g with the node positions apositions; its Dijkstra call runs
    \* on g, start and end
    avehicle,     \* the *entities.Vehicle argument
    apositions,   \* graph.Nodes[id].Position for every node of g
    acall,        \* the function called and its arguments
    assignPc,     \* the position of the call: "call", "routing", "done"
    assignErr,    \* whether the call returned an error
    \* a TelemetryEmitterImpl, its caller and the consumer of its channel
    Events,       \* TelemetryEmitterImpl.Events: [nil, cap, buf]
    emit,         \* a call t.EmitPosition(event): [pc, event, err]
    consumer      \* the goroutine receiving from Events: [pc, taken]

engineVars == <<IsRunning, Vehicles, Mutex, wg, vehicle, vmutex, closedChans, workers, reader>>
routingVars == <<g, start, end, dist, prev, unvisited, routes, dijkstraPc>>
repairVars == <<mg, components, compIdx, repairPc>>
kinVars == <<kv, kgraph, kdelta, kerr, khistory>>
genVars == <<cfg, genPc, previous>>
assignVars == <<avehicle, apositions, acall, assignPc, assignErr>>

telVars == <<Events, emit, consumer>>

vars == <<engineVars, routingVars, repairVars, kinVars, genVars, assignVars, telVars>>

----------------------------------------------------------------------------
(* Bounds of the model *)

\* number of vehicle objects the clients of the engine hold
NumVehicles == 2
\* number of goroutine slots: a spawn needs a free slot
MaxWorkers == 2
\* the wall-clock interval between two ticks of a worker is 1..MaxDtSteps ticker periods
MaxDtSteps == 2

----------------------------------------------------------------------------
(* Fixed-point arithmetic *)

\* 1.0 of progressOnEdge, in millionths
ProgressOne == 1000000
\* the waypoint threshold 0.999999 of UpdateVehiclePosition, in millionths
ProgressThreshold == 999999
\* the ticker period (UpdateRate) of the modelled engine, in milliseconds
UpdateRate == 500
\* the safe maximum of dt the documentation names (0.5 s), in milliseconds
MaxSafeDt == 500

Min(S) == CHOOSE x \in S : \A y \in S : x <= y

\* math.Sqrt on the integers the model uses (exact on perfect squares)
Sqrt(n) == CHOOSE r \in 0..n : r * r <= n /\ (r + 1) * (r + 1) > n

distance(a, b) ==
    LET dx == a[1] - b[1]
        dy == a[2] - b[2]
    IN  Sqrt(dx * dx + dy * dy)

clamp(value, min, max) ==
    IF value < min THEN min ELSE IF value > max THEN max ELSE value

----------------------------------------------------------------------------
(* The kinematic update *)

\* vehicle.Route == nil
NoRoute == [nil |-> TRUE]
NoEdge == ""

interpolatePosition(from, to, progress) ==
    << from.Position[1] + ((to.Position[1] - from.Position[1]) * progress) \div ProgressOne,
       from.Position[2] + ((to.Position[2] - from.Position[2]) * progress) \div ProgressOne >>

calculateVelocity(from, to, speed) ==
    LET dx == to.Position[1] - from.Position[1]
        dy == to.Position[2] - from.Position[2]
        d  == distance(from.Position, to.Position)
    IN  IF d = 0 THEN <<0, 0>>
        ELSE << (dx * speed) \div d, (dy * speed) \div d >>

\* a variant without the fall-back to the base speed limit
EdgeSpeed_NoFallback(edge) == edge.EffectiveSpeedLimit

\* speed := edge.Conditions.EffectiveSpeedLimit, or BaseSpeedLimit when that is <= 0
EdgeSpeed(edge) ==
    IF edge.EffectiveSpeedLimit <= 0 THEN edge.BaseSpeedLimit ELSE edge.EffectiveSpeedLimit

\* a variant with the sign of the displacement reversed
ProgressIncrement_Reversed(edge, delta) ==
    0 - (EdgeSpeed(edge) * delta * 1000) \div edge.Length

\* displacement / edge.Length, in millionths; delta is in milliseconds
ProgressIncrement(edge, delta) ==
    (EdgeSpeed(edge) * delta * 1000) \div edge.Length

\* a variant that leaves the vehicle where the last tick put it
CompleteRoute_NoSnap(v, graph, progress) ==
    [v EXCEPT !.Route.CompletedAt = TRUE,
              !.State.Status = "arrived",
              !.State.Velocity = <<0, 0>>,
              !.State.ProgressOnEdge = progress]

\* a variant that does not record the completion
CompleteRoute_NoTimestamp(v, graph, progress) ==
    [v EXCEPT !.State.Status = "arrived",
              !.State.Velocity = <<0, 0>>,
              !.State.ProgressOnEdge = progress,
              !.State.CurrentPosition = graph.Nodes[v.Route.EndNode].Position]

\* the completion branch: completedAt, arrived, zero velocity, snap to the end node
CompleteRoute(v, graph, progress) ==
    [v EXCEPT !.Route.CompletedAt = TRUE,
              !.State.Status = "arrived",
              !.State.Velocity = <<0, 0>>,
              !.State.ProgressOnEdge = progress,
              !.State.CurrentPosition = graph.Nodes[v.Route.EndNode].Position]

\* a variant that passes two edges at once
NextEdgeIndex_Skipping(idx) == idx + 2

\* a variant that does not move on to the next edge
NextEdgeIndex_Stuck(idx) == idx

\* vehicle.Route.CurrentEdgeIndex += 1
NextEdgeIndex(idx) == idx + 1

\* a variant that keeps the progress beyond the end of the edge
ResetProgress_Kept(progress) == progress

\* vehicle.State.ProgressOnEdge = 0.0 at the waypoint
ResetProgress(progress) == 0

\* a variant that reports no error
EdgeNotFound_Silent(v) == [vehicle |-> v, err |-> FALSE]

\* return errors.New("Edge not found")
EdgeNotFound(v) == [vehicle |-> v, err |-> TRUE]

\* a variant that sets a completed vehicle moving again
AlreadyCompleted_Moving(v) == [v EXCEPT !.State.Status = "moving"]

\* a variant that also rewinds the progress
AlreadyCompleted_Rewound(v) ==
    [v EXCEPT !.State.Status = "arrived", !.State.ProgressOnEdge = 0]

\* the branch for a route whose CompletedAt is set
AlreadyCompleted(v) == [v EXCEPT !.State.Status = "arrived"]

\* UpdateVehiclePosition(vehicle, graph, delta): the vehicle afterwards and
\* whether an error is returned.  Route.CurrentEdgeIndex counts from 0 as in
\* the code; Edges is a 1-based sequence.
UpdateVehiclePosition(v, graph, delta) ==
    IF v.Route = NoRoute THEN [vehicle |-> v, err |-> FALSE]
    ELSE IF v.Route.CompletedAt
    THEN [vehicle |-> AlreadyCompleted(v), err |-> FALSE]
    ELSE IF v.Route.CurrentEdgeIndex >= Len(v.Route.Edges)
    THEN [vehicle |-> CompleteRoute(v, graph, v.State.ProgressOnEdge), err |-> FALSE]
    ELSE IF v.Route.Edges[v.Route.CurrentEdgeIndex + 1] \notin DOMAIN graph.Edges
    THEN EdgeNotFound(v)
    ELSE
      LET edge  == graph.Edges[v.Route.Edges[v.Route.CurrentEdgeIndex + 1]]
          speed == EdgeSpeed(edge)
          p1    == v.State.ProgressOnEdge + ProgressIncrement(edge, delta)
          v1    == [v EXCEPT !.State.ProgressOnEdge = p1]
      IN
      IF p1 >= ProgressThreshold
      THEN
        LET idx == NextEdgeIndex(v.Route.CurrentEdgeIndex)
            v2  == [v1 EXCEPT !.Route.CurrentNode = v.Route.TargetNode,
                              !.Route.CurrentEdgeIndex = idx]
        IN
        IF idx < Len(v.Route.Edges)
        THEN
          LET nextId == v.Route.Edges[idx + 1]
              found  == nextId \in DOMAIN graph.Edges
              e2     == IF found THEN graph.Edges[nextId] ELSE edge
              v3     == IF found
                        THEN [v2 EXCEPT !.State.ProgressOnEdge = ResetProgress(@),
                                        !.State.CurrentEdge = nextId,
                                        !.Route.TargetNode = graph.Edges[nextId].To]
                        ELSE [v2 EXCEPT !.State.ProgressOnEdge = ProgressOne,
                                        !.State.CurrentEdge = NoEdge]
              prog   == clamp(v3.State.ProgressOnEdge, 0, ProgressOne)
          IN [vehicle |->
                [v3 EXCEPT !.State.CurrentPosition =
                               interpolatePosition(graph.Nodes[e2.From], graph.Nodes[e2.To], prog),
                           !.State.Velocity =
                               calculateVelocity(graph.Nodes[e2.From], graph.Nodes[e2.To], speed),
                           !.State.Status =
                               IF v3.State.Status # "arrived" THEN "moving" ELSE "arrived"],
              err |-> FALSE]
        ELSE [vehicle |-> CompleteRoute(v2, graph, ProgressOne), err |-> FALSE]
      ELSE
        LET prog == clamp(p1, 0, ProgressOne)
        IN [vehicle |->
              [v1 EXCEPT !.State.CurrentPosition =
                             interpolatePosition(graph.Nodes[edge.From], graph.Nodes[edge.To], prog),
                         !.State.Velocity =
                             calculateVelocity(graph.Nodes[edge.From], graph.Nodes[edge.To], speed),
                         !.State.Status =
                             IF v1.State.Status # "arrived" THEN "moving" ELSE "arrived"],
            err |-> FALSE]

----------------------------------------------------------------------------
(* The simulation engine: state *)

VehicleObjs == 1..NumVehicles
Slots == 1..MaxWorkers
NoVehicle == 0

\* Stop channels.  A channel is named by the object whose StopChan it is.
\* AddVehicle gives an object a new channel; the one it replaces can then be
\* reached only by the goroutines that are waiting on it and can never be
\* closed any more, so it is named by whether it was closed: StaleOpen or
\* StaleClosed.
NilChan == <<"nil", 0>>
StaleOpen == <<"stale", 0>>
StaleClosed == <<"stale", 1>>
MakeChan(o) == <<"chan", o>>
IsClosed(c) == c = StaleClosed \/ c \in closedChans

\* Vehicle.ID of each object: objects 1 and 3 carry the same ID
VehicleID(o) == IF o % 2 = 1 THEN "a" ELSE "b"
VehicleIDs == {VehicleID(o) : o \in VehicleObjs}

\* the graph the engine is constructed with: one edge A-B of 100 m at 100 m/s
EngineGraph ==
    [Nodes |-> [n \in {"A", "B"} |->
                  [Position |-> IF n = "A" THEN <<0, 0>> ELSE <<100, 0>>,
                   Connections |-> {"A", "B"} \ {n}]],
     Edges |-> [e \in {"A-B"} |->
                  [ID |-> "A-B", From |-> "A", To |-> "B", Length |-> 100,
                   BaseSpeedLimit |-> 100, EffectiveSpeedLimit |-> 100,
                   Bidirectional |-> TRUE]]]

InitialState ==
    [CurrentPosition |-> <<0, 0>>, Velocity |-> <<0, 0>>, CurrentEdge |-> NoEdge,
     ProgressOnEdge |-> 0, Status |-> "idle"]

RouteOver(edges) ==
    [Edges |-> edges, CurrentEdgeIndex |-> 0, CurrentNode |-> "A", TargetNode |-> "B",
     StartNode |-> "A", EndNode |-> "B", CompletedAt |-> FALSE]

\* the vehicles the clients construct: a route over A-B, a route over an edge
\* the graph does not have, and no route
InitialRoute(o) ==
    CASE o % 3 = 1 -> RouteOver(<<"A-B">>)
      [] o % 3 = 2 -> RouteOver(<<"X-Y">>)
      [] OTHER     -> NoRoute

NoWorker == [pc |-> "none", vehicle |-> NoVehicle, watch |-> NilChan, dt |-> 0, err |-> FALSE]
IdleReader == [pc |-> "idle", pending |-> {}, encoding |-> NoVehicle]

Live(w) == workers[w].pc # "none"
LiveWorkersOf(o) == {w \in Slots : Live(w) /\ workers[w].vehicle = o}
Registered == {Vehicles[id] : id \in VehicleIDs} \ {NoVehicle}
RouteComplete(o) == vehicle[o].Route # NoRoute /\ vehicle[o].Route.CompletedAt

\* NewSimulationEngine
EngineInit ==
    /\ IsRunning = FALSE
    /\ Vehicles = [id \in VehicleIDs |-> NoVehicle]
    /\ Mutex = [writer |-> "free", readers |-> 0]
    /\ wg = 0
    /\ vehicle = [o \in VehicleObjs |->
                    [ID |-> VehicleID(o), Route |-> InitialRoute(o),
                     State |-> InitialState, StopChan |-> NilChan]]
    /\ vmutex = [o \in VehicleObjs |-> 0]
    /\ closedChans = {}
    /\ workers = [w \in Slots |-> NoWorker]
    /\ reader = IdleReader

----------------------------------------------------------------------------
(* The simulation engine: operations *)

\* s.Mutex.Lock() succeeds when nobody holds the lock
CanLock == Mutex.writer = "free" /\ Mutex.readers = 0

FreeSlots(ws) == {w \in Slots : ws[w].pc = "none"}

\* a RunVehicleGoroutine that forgets wg.Add(1)
WgAdd_Forgotten(n) == n

\* wg.Add(1) of RunVehicleGoroutine
WgAdd(n) == n + 1

\* wg.Done() of the goroutine's defer
WgDone(n) == n - 1

\* RunVehicleGoroutine(vehicle): wg.Add(1) and a new goroutine at its first statement
RunVehicleGoroutine(st, o) ==
    [ws |-> [st.ws EXCEPT ![Min(FreeSlots(st.ws))] =
                [pc |-> "start", vehicle |-> o, watch |-> NilChan, dt |-> 0, err |-> FALSE]],
     wg |-> WgAdd(st.wg)]

RECURSIVE RunAll(_, _)
\* the loop of Start over s.Vehicles
RunAll(st, objs) ==
    IF objs = {} THEN st
    ELSE RunAll(RunVehicleGoroutine(st, Min(objs)), objs \ {Min(objs)})

\* the mark a panicking close leaves among the closed channels
Panicked == <<"panic", 0>>

\* close(c): closing a nil channel or a closed channel panics
close(closed, c) ==
    IF c = NilChan \/ c \in closed THEN closed \cup {Panicked} ELSE closed \cup {c}

\* a stopVehicle that closes without looking
stopVehicle_Unguarded(closed, o) == close(closed, vehicle[o].StopChan)

\* stopVehicle: the select takes the receive when the StopChan is closed (a
\* nil channel is never ready) and the default, which closes it, otherwise
stopVehicle(closed, o) ==
    IF vehicle[o].StopChan \in closed THEN closed ELSE close(closed, vehicle[o].StopChan)

RECURSIVE StopAll(_, _)
\* the loop of Stop over s.Vehicles
StopAll(closed, objs) ==
    IF objs = {} THEN closed
    ELSE StopAll(stopVehicle(closed, Min(objs)), objs \ {Min(objs)})

\* the goroutines that wait on the channel which AddVehicle(o) replaces keep it
Retire(ws, o) ==
    [w \in Slots |->
        IF ws[w].watch = MakeChan(o)
        THEN [ws[w] EXCEPT !.watch = IF IsClosed(MakeChan(o)) THEN StaleClosed ELSE StaleOpen]
        ELSE ws[w]]

Start ==
    /\ CanLock
    /\ IF IsRunning
       THEN UNCHANGED <<IsRunning, workers, wg>>
       ELSE /\ Cardinality(FreeSlots(workers)) >= Cardinality(Registered)
            /\ IsRunning' = TRUE
            /\ LET st == RunAll([ws |-> workers, wg |-> wg], Registered)
               IN  workers' = st.ws /\ wg' = st.wg
    /\ UNCHANGED <<Vehicles, Mutex, vehicle, vmutex, closedChans, reader, routingVars, repairVars, kinVars, genVars, assignVars, telVars>>

\* Stop up to wg.Wait(): the lock stays held
StopBegin ==
    /\ CanLock
    /\ IF ~IsRunning
       THEN UNCHANGED <<IsRunning, Mutex, closedChans>>
       ELSE /\ IsRunning' = FALSE
            /\ closedChans' = StopAll(closedChans, Registered)
            /\ Mutex' = [Mutex EXCEPT !.writer = "stop"]
    /\ UNCHANGED <<Vehicles, wg, vehicle, vmutex, workers, reader, routingVars, repairVars, kinVars, genVars, assignVars, telVars>>

\* wg.Wait() returns when the counter is zero; the deferred Unlock follows
StopReturn ==
    /\ Mutex.writer = "stop"
    /\ wg = 0
    /\ Mutex' = [Mutex EXCEPT !.writer = "free"]
    /\ UNCHANGED <<IsRunning, Vehicles, wg, vehicle, vmutex, closedChans, workers, reader, routingVars, repairVars, kinVars, genVars, assignVars, telVars>>

\* an AddVehicle that leaves the registry as it was
Register_Skipped(reg, o) == reg

\* s.Vehicles[vehicle.ID] = vehicle
Register(reg, o) == [reg EXCEPT ![vehicle[o].ID] = o]

AddVehicle(o) ==
    /\ CanLock
    /\ IF Vehicles[vehicle[o].ID] # NoVehicle
       THEN UNCHANGED <<Vehicles, vehicle, closedChans, workers, wg>>
       ELSE /\ vehicle' = [vehicle EXCEPT ![o].StopChan = MakeChan(o)]
            /\ closedChans' = closedChans \ {MakeChan(o)}
            /\ Vehicles' = Register(Vehicles, o)
            /\ IF IsRunning
               THEN /\ FreeSlots(workers) # {}
                    /\ LET st == RunVehicleGoroutine([ws |-> Retire(workers, o), wg |-> wg], o)
                       IN  workers' = st.ws /\ wg' = st.wg
               ELSE workers' = Retire(workers, o) /\ UNCHANGED wg
    /\ UNCHANGED <<IsRunning, Mutex, vmutex, reader, routingVars, repairVars, kinVars, genVars, assignVars, telVars>>

RemoveVehicle(id) ==
    /\ CanLock
    /\ IF Vehicles[id] = NoVehicle
       THEN UNCHANGED <<Vehicles, closedChans>>
       ELSE /\ closedChans' = IF IsRunning THEN stopVehicle(closedChans, Vehicles[id])
                                           ELSE closedChans
            /\ Vehicles' = [Vehicles EXCEPT ![id] = NoVehicle]
    /\ UNCHANGED <<IsRunning, Mutex, wg, vehicle, vmutex, workers, reader, routingVars, repairVars, kinVars, genVars, assignVars, telVars>>

----------------------------------------------------------------------------
(* The simulation engine: the goroutine of RunVehicleGoroutine *)

\* the wall-clock intervals a worker may measure between two ticks
DtChoices == {k * UpdateRate : k \in 1..MaxDtSteps}

\* a clock that measures nothing between two ticks
TickDt_Zero(elapsed) == 0

\* dt := now.Sub(lastUpdate).Seconds(), as passed to UpdateVehiclePosition
TickDt(elapsed) == elapsed

\* an update that does not wait for the vehicle's mutex
CanLockVehicle_NoWait(o) == TRUE

\* vehicle.Mutex.Lock() returns when nobody holds the vehicle's mutex
CanLockVehicle(o) == vmutex[o] = 0

\* the goroutine leaves: the deferred wg.Done()
Exit(w) ==
    /\ workers' = [workers EXCEPT ![w] = NoWorker]
    /\ wg' = WgDone(wg)

\* the select is entered: its channel operand vehicle.StopChan is evaluated
EnterSelect(w) ==
    workers' = [workers EXCEPT ![w].pc = "select",
                               ![w].watch = vehicle[workers[w].vehicle].StopChan]

\* the goroutine starts: ticker, lastUpdate, then the first select
WorkerStart(w) ==
    /\ workers[w].pc = "start"
    /\ EnterSelect(w)
    /\ UNCHANGED <<IsRunning, Vehicles, Mutex, wg, vehicle, vmutex, closedChans, reader, routingVars, repairVars, kinVars, genVars, assignVars, telVars>>

\* case <-ticker.C, up to the call of vehicle.Mutex.Lock()
WorkerTick(w) ==
    /\ workers[w].pc = "select"
    /\ \E elapsed \in DtChoices :
         workers' = [workers EXCEPT ![w].pc = "lock", ![w].dt = TickDt(elapsed)]
    /\ UNCHANGED <<IsRunning, Vehicles, Mutex, wg, vehicle, vmutex, closedChans, reader, routingVars, repairVars, kinVars, genVars, assignVars, telVars>>

\* vehicle.Mutex.Lock() returns
WorkerLock(w) ==
    /\ workers[w].pc = "lock"
    /\ CanLockVehicle(workers[w].vehicle)
    /\ vmutex' = [vmutex EXCEPT ![workers[w].vehicle] = w]
    /\ workers' = [workers EXCEPT ![w].pc = "update"]
    /\ UNCHANGED <<IsRunning, Vehicles, Mutex, wg, vehicle, closedChans, reader, routingVars, repairVars, kinVars, genVars, assignVars, telVars>>

\* UpdateVehiclePosition and vehicle.Mutex.Unlock(); emitTelemetry only prints
WorkerUpdate(w) ==
    /\ workers[w].pc = "update"
    /\ LET o == workers[w].vehicle
           r == UpdateVehiclePosition(vehicle[o], EngineGraph, workers[w].dt)
       IN  /\ vehicle' = [vehicle EXCEPT ![o] = r.vehicle]
           /\ workers' = [workers EXCEPT ![w].pc = "check", ![w].err = r.err, ![w].dt = 0]
           /\ vmutex' = [vmutex EXCEPT ![o] = IF vmutex[o] = w THEN 0 ELSE vmutex[o]]
    /\ UNCHANGED <<IsRunning, Vehicles, Mutex, wg, closedChans, reader, routingVars, repairVars, kinVars, genVars, assignVars, telVars>>

\* if err != nil {}; if vehicle.Route != nil && vehicle.Route.CompletedAt != nil { return }
WorkerCheck(w) ==
    /\ workers[w].pc = "check"
    /\ IF RouteComplete(workers[w].vehicle)
       THEN Exit(w)
       ELSE EnterSelect(w) /\ UNCHANGED wg
    /\ UNCHANGED <<IsRunning, Vehicles, Mutex, vehicle, vmutex, closedChans, reader, routingVars, repairVars, kinVars, genVars, assignVars, telVars>>

\* case <-vehicle.StopChan: return
WorkerStop(w) ==
    /\ workers[w].pc = "select"
    /\ IsClosed(workers[w].watch)
    /\ Exit(w)
    /\ UNCHANGED <<IsRunning, Vehicles, Mutex, vehicle, vmutex, closedChans, reader, routingVars, repairVars, kinVars, genVars, assignVars, telVars>>

----------------------------------------------------------------------------
(* SimulationAPI.GetVehicles *)

\* api.Engine.Mutex.RLock() and the loop that collects the registered vehicles
GetVehiclesRLock ==
    /\ reader.pc = "idle"
    /\ Mutex.writer = "free"
    /\ Mutex' = [Mutex EXCEPT !.readers = @ + 1]
    /\ reader' = [pc |-> "encode", pending |-> Registered, encoding |-> NoVehicle]
    /\ UNCHANGED <<IsRunning, Vehicles, wg, vehicle, vmutex, closedChans, workers, routingVars, repairVars, kinVars, genVars, assignVars, telVars>>

\* json Encode reads the State and Route of the next vehicle of the slice
GetVehiclesEncode(o) ==
    /\ reader.pc = "encode"
    /\ o \in reader.pending
    /\ reader' = [reader EXCEPT !.pending = @ \ {o}, !.encoding = o]
    /\ UNCHANGED <<IsRunning, Vehicles, Mutex, wg, vehicle, vmutex, closedChans, workers, routingVars, repairVars, kinVars, genVars, assignVars, telVars>>

\* the deferred RUnlock
GetVehiclesReturn ==
    /\ reader.pc = "encode"
    /\ reader.pending = {}
    /\ Mutex' = [Mutex EXCEPT !.readers = @ - 1]
    /\ reader' = IdleReader
    /\ UNCHANGED <<IsRunning, Vehicles, wg, vehicle, vmutex, closedChans, workers, routingVars, repairVars, kinVars, genVars, assignVars, telVars>>

----------------------------------------------------------------------------
(* The reader of the concurrency test: engine read lock, then every *)
(* vehicle's mutex                                                    *)

\* the holder of a vehicle's mutex that is this reader
Lister == MaxWorkers + 1

\* a reader that keeps the vehicle's mutex
UnlockVehicle_Forgotten(vm, o) == vm

\* v.Mutex.Unlock()
UnlockVehicle(vm, o) == [vm EXCEPT ![o] = 0]

\* engine.mutex.RLock() and the start of the loop over engine.Vehicles
ListRLock ==
    /\ reader.pc = "idle"
    /\ Mutex.writer = "free"
    /\ Mutex' = [Mutex EXCEPT !.readers = @ + 1]
    /\ reader' = [pc |-> "list", pending |-> Registered, encoding |-> NoVehicle]
    /\ UNCHANGED <<IsRunning, Vehicles, wg, vehicle, vmutex, closedChans, workers, routingVars, repairVars, kinVars, genVars, assignVars, telVars>>

\* the loop reaches its next vehicle (in the order range gives) and calls
\* v.Mutex.Lock()
ListNext(o) ==
    /\ reader.pc = "list"
    /\ o \in reader.pending
    /\ reader' = [pc |-> "lock", pending |-> reader.pending \ {o}, encoding |-> o]
    /\ UNCHANGED <<IsRunning, Vehicles, Mutex, wg, vehicle, vmutex, closedChans, workers, routingVars, repairVars, kinVars, genVars, assignVars, telVars>>

\* v.Mutex.Lock() returns
ListLock ==
    /\ reader.pc = "lock"
    /\ CanLockVehicle(reader.encoding)
    /\ vmutex' = [vmutex EXCEPT ![reader.encoding] = Lister]
    /\ reader' = [reader EXCEPT !.pc = "read"]
    /\ UNCHANGED <<IsRunning, Vehicles, Mutex, wg, vehicle, closedChans, workers, routingVars, repairVars, kinVars, genVars, assignVars, telVars>>

\* the assertion reads v.State; v.Mutex.Unlock()
ListUnlock ==
    /\ reader.pc = "read"
    /\ vmutex' = UnlockVehicle(vmutex, reader.encoding)
    /\ reader' = [reader EXCEPT !.pc = "list", !.encoding = NoVehicle]
    /\ UNCHANGED <<IsRunning, Vehicles, Mutex, wg, vehicle, closedChans, workers, routingVars, repairVars, kinVars, genVars, assignVars, telVars>>

\* engine.mutex.RUnlock() after the loop
ListReturn ==
    /\ reader.pc = "list"
    /\ reader.pending = {}
    /\ Mutex' = [Mutex EXCEPT !.readers = @ - 1]
    /\ reader' = IdleReader
    /\ UNCHANGED <<IsRunning, Vehicles, wg, vehicle, vmutex, closedChans, workers, routingVars, repairVars, kinVars, genVars, assignVars, telVars>>

----------------------------------------------------------------------------
(* The router: Dijkstra (map-routing.go) and findEdge *)

\* number of nodes of the routed graphs
NumNodes == 3
\* edge lengths are 1..MaxLength
MaxLength == 2

NodeIDs == 1..NumNodes

\* math.Inf(1): above the length of every path of the bounded graphs
Inf == NumNodes * MaxLength + 1

Range(f) == {f[x] : x \in DOMAIN f}

\* the edge the k-nearest-neighbour generator builds from cur to other,
\* under the key cur.ID + "->" + other.ID; the length is what the weight
\* variation leaves
MapEdge(cur, other, length) ==
    [ID |-> <<cur, other>>, From |-> cur, To |-> other,
     Length |-> length, Bidirectional |-> TRUE]

OrderedPairs == {p \in NodeIDs \X NodeIDs : p[1] # p[2]}

\* for every ordered pair of nodes: no edge (0) or the length of its edge
EdgeLengths == [OrderedPairs -> 0..MaxLength]

\* the graph with these edges; Connections are set in both directions for
\* every edge, as the generators do
GraphOf(len) ==
    LET keys == {k \in OrderedPairs : len[k] > 0}
    IN  [Nodes |-> [n \in NodeIDs |->
                      [ID |-> n,
                       Connections |-> {m \in NodeIDs : <<n, m>> \in keys \/ <<m, n>> \in keys}]],
         Edges |-> [k \in keys |-> MapEdge(k[1], k[2], len[k])]]

\* findEdge ranges over the map g.Edges and returns the first match: every
\* matching edge is a possible result; the empty set stands for nil
findEdge(graph, from, to) ==
    {edge \in Range(graph.Edges) :
        \/ edge.From = from /\ edge.To = to
        \/ edge.Bidirectional /\ edge.From = to /\ edge.To = from}

\* the node the inner loop over unvisited can leave in current: one of the
\* unvisited nodes of least finite distance
MinCandidates ==
    {n \in unvisited : dist[n] < Inf /\ \A m \in unvisited : dist[n] <= dist[m]}

\* the results of the calls findEdge(g, current, neighbor) of one pass over
\* node.Connections (neighbours with no edge are skipped)
EdgeChoices(graph, current) ==
    LET ns == {n \in graph.Nodes[current].Connections : findEdge(graph, current, n) # {}}
    IN  {f \in [ns -> Range(graph.Edges)] : \A n \in ns : f[n] \in findEdge(graph, current, n)}

\* a relaxation that never finds a shorter way
Improves_Never(d, current, pick, neighbor) == FALSE

\* alt < dist[neighbor]
Improves(d, current, pick, neighbor) ==
    /\ neighbor \in DOMAIN pick
    /\ neighbor \in DOMAIN d
    /\ d[current] + pick[neighbor].Length < d[neighbor]

RECURSIVE pathNodes(_, _, _, _)

\* a loop that looks u up in prev before it compares u with start
pathNodes_PrevFirst(pv, s, u, acc) ==
    LET acc2 == <<u>> \o acc
    IN  IF u \notin DOMAIN pv THEN [ok |-> FALSE, nodes |-> acc2]
        ELSE IF u = s THEN [ok |-> TRUE, nodes |-> acc2]
        ELSE pathNodes(pv, s, pv[u], acc2)

\* the prepend loop that follows prev from end back to start
pathNodes(pv, s, u, acc) ==
    LET acc2 == <<u>> \o acc
    IN  IF u = s THEN [ok |-> TRUE, nodes |-> acc2]
        ELSE IF u \notin DOMAIN pv THEN [ok |-> FALSE, nodes |-> acc2]
        ELSE pathNodes(pv, s, pv[u], acc2)

NilEdge == [ID |-> "nil"]
NotNil(e) == e # NilEdge

\* the results of the calls findEdge(g, pathNodes[i], pathNodes[i+1])
HopChoices(graph, pn) ==
    {f \in [1..(Len(pn) - 1) -> Range(graph.Edges) \cup {NilEdge}] :
        \A k \in 1..(Len(pn) - 1) :
            IF findEdge(graph, pn[k], pn[k + 1]) = {}
            THEN f[k] = NilEdge
            ELSE f[k] \in findEdge(graph, pn[k], pn[k + 1])}

\* a variant that leaves the length out of the total
AddLength_Dropped(total, e) == total

\* total += e.Length
AddLength(total, e) == total + e.Length

RECURSIVE TotalOf(_)
TotalOf(es) ==
    IF es = << >> THEN 0 ELSE AddLength(TotalOf(SubSeq(es, 1, Len(es) - 1)), es[Len(es)])

\* the entities.Route built from the edges found
RouteOf(s, e, es) ==
    [Edges |-> [k \in DOMAIN es |-> es[k].ID],
     StartNode |-> s, EndNode |-> e, TotalDistance |-> TotalOf(es)]

NoMap == << >>

\* no call of Dijkstra is in progress
RoutingIdle ==
    /\ g = GraphOf([p \in OrderedPairs |-> 0])
    /\ start = 1
    /\ end = 1
    /\ dist = NoMap
    /\ prev = NoMap
    /\ unvisited = {}
    /\ routes = << >>
    /\ dijkstraPc = "done"

\* a call Dijkstra(g, start, end) on a bounded graph
DijkstraCall ==
    /\ g \in {GraphOf(len) : len \in EdgeLengths}
    /\ start \in NodeIDs
    /\ end \in NodeIDs
    /\ dist = NoMap
    /\ prev = NoMap
    /\ unvisited = {}
    /\ routes = << >>
    /\ dijkstraPc = "init"

DijkstraInit ==
    /\ dijkstraPc = "init"
    /\ dist' = [id \in DOMAIN g.Nodes |-> IF id = start THEN 0 ELSE Inf]
    /\ unvisited' = DOMAIN g.Nodes
    /\ dijkstraPc' = "loop"
    /\ UNCHANGED <<g, start, end, prev, routes, engineVars, repairVars, kinVars, genVars, assignVars, telVars>>

\* the loop is left: no unvisited node, none of finite distance, or end reached
DijkstraBreak ==
    /\ dijkstraPc = "loop"
    /\ \/ unvisited = {}
       \/ MinCandidates = {}
       \/ end \in MinCandidates
    /\ dijkstraPc' = "build"
    /\ UNCHANGED <<g, start, end, dist, prev, unvisited, routes, engineVars, repairVars, kinVars, genVars, assignVars, telVars>>

\* one pass of the loop: visit current and relax its neighbours
DijkstraVisit ==
    /\ dijkstraPc = "loop"
    /\ \E current \in MinCandidates \ {end} :
         \E pick \in EdgeChoices(g, current) :
           LET better == {n \in DOMAIN pick : Improves(dist, current, pick, n)}
           IN  /\ unvisited' = unvisited \ {current}
               /\ dist' = [n \in DOMAIN dist |->
                             IF n \in better THEN dist[current] + pick[n].Length ELSE dist[n]]
               /\ prev' = [n \in DOMAIN prev \cup better |->
                             IF n \in better THEN current ELSE prev[n]]
    /\ UNCHANGED <<g, start, end, routes, dijkstraPc, engineVars, repairVars, kinVars, genVars, assignVars, telVars>>

\* the path is rebuilt from prev and the route returned
DijkstraReturn ==
    /\ dijkstraPc = "build"
    /\ LET p == pathNodes(prev, start, end, << >>)
       IN  IF ~p.ok
           THEN routes' = << >>
           ELSE \E f \in HopChoices(g, p.nodes) :
                  routes' = << RouteOf(start, end, SelectSeq(f, NotNil)) >>
    /\ dijkstraPc' = "done"
    /\ UNCHANGED <<g, start, end, dist, prev, unvisited, engineVars, repairVars, kinVars, genVars, assignVars, telVars>>

----------------------------------------------------------------------------
(* The connectivity repair of the map generator: EnsureGraphConnectivity *)

\* number of nodes of the repaired graphs
NumMapNodes == 4

MapNodeIDs == 1..NumMapNodes

\* the places a node can be generated at: the corners of a 3 x 4 rectangle,
\* whose mutual distances (0, 3, 4, 5) have exact square roots
Places == {<<0, 0>>, <<3, 0>>, <<0, 4>>, <<3, 4>>}

UnorderedPairs == {p \in MapNodeIDs \X MapNodeIDs : p[1] < p[2]}

\* the speed limit chosen from the length of a new edge, in tenths of m/s
baseSpeedLimit(d) == IF d < 100 THEN 134 ELSE IF d < 300 THEN 222 ELSE 333

\* the edge a generator builds between two nodes within reach, under the
\* key a.ID + "->" + b.ID (surface quality in hundredths)
GeneratedEdge(a, b, pos) ==
    [ID |-> <<"->", a, b>>, From |-> a, To |-> b,
     Length |-> distance(pos[a], pos[b]),
     BaseSpeedLimit |-> baseSpeedLimit(distance(pos[a], pos[b])),
     SurfaceQuality |-> 95, Bidirectional |-> TRUE]

\* a generated graph: nodes at the places pos, adjacent (in both directions)
\* for the pairs adj, one edge for every adjacent pair
MapGraphOf(pos, adj) ==
    [Nodes |-> [n \in MapNodeIDs |->
                  [ID |-> n, Position |-> pos[n],
                   Connections |-> {m \in MapNodeIDs : <<n, m>> \in adj \/ <<m, n>> \in adj}]],
     Edges |-> [k \in {<<"->", p[1], p[2]>> : p \in adj} |-> GeneratedEdge(k[2], k[3], pos)]]

\* the orders a range over the set S can take
Orders(S) ==
    {f \in [1..Cardinality(S) -> S] : \A a, b \in 1..Cardinality(S) : a # b => f[a] # f[b]}

\* the inner loop of findConnectedComponents: the components a breadth-first
\* search can produce from this queue, the neighbours of a node being
\* ranged over in any order
RECURSIVE bfs(_, _, _, _)
bfs(graph, queue, visited, component) ==
    IF queue = << >> THEN {[component |-> component, visited |-> visited]}
    ELSE LET current == Head(queue)
             fresh   == graph.Nodes[current].Connections \ visited
         IN  UNION {bfs(graph, Tail(queue) \o order, visited \cup fresh,
                        Append(component, current)) : order \in Orders(fresh)}

\* findConnectedComponents: the slices it can return, g.Nodes being ranged
\* over in any order
RECURSIVE findConnectedComponents(_, _, _)
findConnectedComponents(graph, visited, comps) ==
    IF DOMAIN graph.Nodes \subseteq visited THEN {comps}
    ELSE UNION {UNION {findConnectedComponents(graph, r.visited, Append(comps, r.component)) :
                         r \in bfs(graph, <<nodeID>>, visited \cup {nodeID}, << >>)} :
                  nodeID \in DOMAIN graph.Nodes \ visited}

\* findClosestNodeInComponent: the node of component1 of the first pair, in
\* the order of the two nested loops, at the least distance
findClosestNodeInComponent(graph, component1, component2) ==
    LET d(a, b) == distance(graph.Nodes[a].Position, graph.Nodes[b].Position)
        minDist == Min({d(component1[a], component2[b]) :
                          a \in DOMAIN component1, b \in DOMAIN component2})
        first   == Min({a \in DOMAIN component1 :
                          \E b \in DOMAIN component2 : d(component1[a], component2[b]) = minDist})
    IN  component1[first]

\* a variant that stores the new edge in a fresh edge map
connectNodes_Replacing(graph, node1, node2) ==
    LET d       == distance(graph.Nodes[node1].Position, graph.Nodes[node2].Position)
        edgeKey == IF node1 > node2 THEN <<"-", node2, node1>> ELSE <<"-", node1, node2>>
        edge    == [ID |-> edgeKey, From |-> node1, To |-> node2, Length |-> d,
                    BaseSpeedLimit |-> baseSpeedLimit(d),
                    SurfaceQuality |-> 90, Bidirectional |-> TRUE]
    IN  [Nodes |-> [n \in DOMAIN graph.Nodes |->
                      IF n = node1
                      THEN [graph.Nodes[n] EXCEPT !.Connections = @ \cup {node2}]
                      ELSE IF n = node2
                      THEN [graph.Nodes[n] EXCEPT !.Connections = @ \cup {node1}]
                      ELSE graph.Nodes[n]],
         Edges |-> [k \in {edgeKey} |-> edge]]

\* connectNodes: both Connections are set and the edge is stored under the
\* key of the smaller ID, "-", the larger ID
connectNodes(graph, node1, node2) ==
    LET d       == distance(graph.Nodes[node1].Position, graph.Nodes[node2].Position)
        edgeKey == IF node1 > node2 THEN <<"-", node2, node1>> ELSE <<"-", node1, node2>>
        edge    == [ID |-> edgeKey, From |-> node1, To |-> node2, Length |-> d,
                    BaseSpeedLimit |-> baseSpeedLimit(d),
                    SurfaceQuality |-> 90, Bidirectional |-> TRUE]
    IN  [Nodes |-> [n \in DOMAIN graph.Nodes |->
                      IF n = node1
                      THEN [graph.Nodes[n] EXCEPT !.Connections = @ \cup {node2}]
                      ELSE IF n = node2
                      THEN [graph.Nodes[n] EXCEPT !.Connections = @ \cup {node1}]
                      ELSE graph.Nodes[n]],
         Edges |-> [k \in DOMAIN graph.Edges \cup {edgeKey} |->
                      IF k = edgeKey THEN edge ELSE graph.Edges[k]]]

\* a variant of the loop bound that stops one pair short
LastPair_Short(comps) == Len(comps) - 2

\* the bound of the loop over the pairs of consecutive components
LastPair(comps) == Len(comps) - 1

\* no call of EnsureGraphConnectivity is in progress
RepairIdle ==
    /\ mg = MapGraphOf([n \in MapNodeIDs |-> <<0, 0>>], {})
    /\ components = << >>
    /\ compIdx = 0
    /\ repairPc = "done"

\* a call EnsureGraphConnectivity(mg) on a generated graph
RepairCall ==
    /\ mg \in {MapGraphOf(pos, adj) : pos \in [MapNodeIDs -> Places], adj \in SUBSET UnorderedPairs}
    /\ components = << >>
    /\ compIdx = 0
    /\ repairPc = "find"

\* the components are found; with at most one the call returns
RepairFind ==
    /\ repairPc = "find"
    /\ IF DOMAIN mg.Nodes = {}
       THEN repairPc' = "done" /\ UNCHANGED components
       ELSE /\ components' \in findConnectedComponents(mg, {}, << >>)
            /\ repairPc' = IF Len(components') <= 1 THEN "done" ELSE "loop"
    /\ UNCHANGED <<mg, compIdx, engineVars, routingVars, kinVars, genVars, assignVars, telVars>>

\* one pass of the loop: components[i] and components[i+1] are connected
RepairConnect ==
    /\ repairPc = "loop"
    /\ compIdx < LastPair(components)
    /\ LET node1 == findClosestNodeInComponent(mg, components[compIdx + 1], components[compIdx + 2])
           node2 == findClosestNodeInComponent(mg, components[compIdx + 2], components[compIdx + 1])
       IN  mg' = connectNodes(mg, node1, node2)
    /\ compIdx' = compIdx + 1
    /\ UNCHANGED <<components, repairPc, engineVars, routingVars, kinVars, genVars, assignVars, telVars>>

RepairReturn ==
    /\ repairPc = "loop"
    /\ ~(compIdx < LastPair(components))
    /\ repairPc' = "done"
    /\ UNCHANGED <<mg, components, compIdx, engineVars, routingVars, kinVars, genVars, assignVars, telVars>>

----------------------------------------------------------------------------
(* Repeated kinematic updates of one vehicle *)

\* the delta of a call is 0..MaxDeltaSeconds seconds
MaxDeltaSeconds == 3

DeltaChoices == {1000 * k : k \in 0..MaxDeltaSeconds}

\* Conditions.EffectiveSpeedLimit of an edge: 0 (not set) or 10 m/s
EffectiveChoices == {0, 10}

\* the graph of the update tests: A (0,0), B (100,0), C (100,100), the edges
\* A-B and B-C of 100 m with base speed limit 15 m/s
KinematicGraph(effAB, effBC) ==
    [Nodes |-> [n \in {"A", "B", "C"} |->
                  [Position |-> CASE n = "A" -> <<0, 0>>
                                  [] n = "B" -> <<100, 0>>
                                  [] OTHER   -> <<100, 100>>,
                   Connections |-> IF n = "B" THEN {"A", "C"} ELSE {"B"}]],
     Edges |-> [e \in {"A-B", "B-C"} |->
                  [ID |-> e,
                   From |-> IF e = "A-B" THEN "A" ELSE "B",
                   To |-> IF e = "A-B" THEN "B" ELSE "C",
                   Length |-> 100, BaseSpeedLimit |-> 15,
                   EffectiveSpeedLimit |-> IF e = "A-B" THEN effAB ELSE effBC,
                   Bidirectional |-> TRUE]]]

\* a first target that is always the end of the route
getFirstTargetNode_EndNode(route, graph) == route.EndNode

\* getFirstTargetNode
getFirstTargetNode(route, graph) ==
    IF Len(route.Edges) = 0 THEN route.EndNode
    ELSE IF route.Edges[1] \in DOMAIN graph.Edges THEN graph.Edges[route.Edges[1]].To
    ELSE route.EndNode

\* the vehicle as AssignVehicleRoute populates it from the router's route
AssignedVehicle(graph, route) ==
    [ID |-> "v",
     Route |-> [Edges |-> route.Edges, CurrentEdgeIndex |-> 0,
                CurrentNode |-> route.StartNode,
                TargetNode |-> getFirstTargetNode(route, graph),
                StartNode |-> route.StartNode, EndNode |-> route.EndNode,
                CompletedAt |-> FALSE],
     State |-> [CurrentPosition |-> graph.Nodes[route.StartNode].Position,
                Velocity |-> <<0, 0>>,
                CurrentEdge |-> IF Len(route.Edges) > 0 THEN route.Edges[1] ELSE NoEdge,
                ProgressOnEdge |-> 0,
                Status |-> IF Len(route.Edges) > 0 THEN "moving" ELSE "idle"]]

\* a vehicle that was given no route
UnroutedVehicle == [ID |-> "v", Route |-> NoRoute, State |-> InitialState]

\* the routes of the vehicles updated: over no edge, one edge, two edges,
\* and over an edge "X-Y" that the graph does not have
KinematicRoutes ==
    {[Edges |-> << >>, StartNode |-> "A", EndNode |-> "A"],
     [Edges |-> <<"A-B">>, StartNode |-> "A", EndNode |-> "B"],
     [Edges |-> <<"A-B", "B-C">>, StartNode |-> "A", EndNode |-> "C"],
     [Edges |-> <<"A-B", "X-Y">>, StartNode |-> "A", EndNode |-> "C"],
     [Edges |-> <<"X-Y">>, StartNode |-> "A", EndNode |-> "B"]}

\* the calls are counted up to MaxCalls
MaxCalls == 21

\* the delta of the ticks of the end-to-end scenarios (dt = 1.0), in milliseconds
TickDelta == 1000

\* before the first call: no call made, and no call with another delta than
\* TickDelta
NoCalls == [calls |-> 0, ticking |-> TRUE]

\* a history that is not followed: its count stands at the end from the start
Uncounted == [calls |-> MaxCalls, ticking |-> FALSE]

\* the history after one more call, with this delta
Called(h, delta) ==
    [calls |-> IF h.calls < MaxCalls THEN h.calls + 1 ELSE h.calls,
     ticking |-> h.ticking /\ delta = TickDelta]

\* no vehicle is being updated outside the engine
KinematicsIdle ==
    /\ kv = UnroutedVehicle
    /\ kgraph = KinematicGraph(10, 10)
    /\ kdelta = 0
    /\ kerr = FALSE
    /\ khistory = NoCalls

\* a vehicle whose route was completed before, as the completed-route test
\* builds it: CompletedAt set, the state otherwise untouched
CompletedVehicle(graph) ==
    LET v == AssignedVehicle(graph, [Edges |-> <<"A-B">>, StartNode |-> "A", EndNode |-> "B"])
    IN [v EXCEPT !.Route.CompletedAt = TRUE]

\* a vehicle about to be updated
KinematicsStart ==
    /\ kgraph \in {KinematicGraph(a, b) : a \in EffectiveChoices, b \in EffectiveChoices}
    /\ kv \in {UnroutedVehicle, CompletedVehicle(kgraph)}
                \cup {AssignedVehicle(kgraph, r) : r \in KinematicRoutes}
    /\ kdelta = 0
    /\ kerr = FALSE

\* emitTelemetry: the event built from the vehicle, if any; the edge falls
\* back to the one before currentEdgeIndex when currentEdge is empty
emitTelemetry(v) ==
    IF v.Route = NoRoute \/ Len(v.Route.Edges) = 0
    THEN [emitted |-> FALSE]
    ELSE [emitted |-> TRUE,
          VehicleID |-> v.ID,
          EdgeID |-> IF v.State.CurrentEdge = NoEdge /\ v.Route.CurrentEdgeIndex > 0
                     THEN v.Route.Edges[v.Route.CurrentEdgeIndex]
                     ELSE v.State.CurrentEdge,
          FromNodeID |-> v.Route.CurrentNode,
          Progress |-> v.State.ProgressOnEdge]

\* one call UpdateVehiclePosition(kv, kgraph, delta)
Update(delta) ==
    /\ kv' = UpdateVehiclePosition(kv, kgraph, delta).vehicle
    /\ kerr' = UpdateVehiclePosition(kv, kgraph, delta).err
    /\ kdelta' = delta
    /\ khistory' = Called(khistory, delta)
    /\ UNCHANGED <<kgraph, engineVars, routingVars, repairVars, genVars, assignVars, telVars>>

KinematicUpdate == \E delta \in DeltaChoices : Update(delta)

----------------------------------------------------------------------------
(* The map generator: Generate and BuildEdgesFromConnections *)

\* cfg.N is 2..MaxN
MaxN == 3
\* cfg.K is 1..MaxK for the k-nearest-neighbour graph
MaxK == 2

\* generateNodes: the positions n nodes can be given
Placements(n) == [1..n -> Places]

\* the graph with nodes at pos and one edge, built by a generator, for
\* every arc <<from, to>>; Connections are set in both directions
GeneratedGraph(pos, arcs) ==
    [Nodes |-> [n \in DOMAIN pos |->
                  [ID |-> n, Position |-> pos[n],
                   Connections |-> {m \in DOMAIN pos : <<n, m>> \in arcs \/ <<m, n>> \in arcs}]],
     Edges |-> [k \in {<<"->", a[1], a[2]>> : a \in arcs} |-> GeneratedEdge(k[2], k[3], pos)]]

\* the empty graph Generate returns for an unknown algorithm
EmptyGraph == [Nodes |-> << >>, Edges |-> << >>]

\* optimalRadius(N, area), times 0.6 (Sparse) or 1.4 (Connected), for bounds
\* of 10 x 10: 3.32 (N = 2) and 3.41 (N = 3), so 1.99 or 2.05 and 4.65 or
\* 4.78; distances are whole numbers, so the radius is rounded down
Radius(n, mode) == IF mode = "Sparse" THEN (IF n = 2 THEN 1 ELSE 2) ELSE 4

\* the pairs ids[i], ids[j] with i < j of the slice collectIDs returns
PairsInOrder(ids) ==
    {p \in Range(ids) \X Range(ids) : \E i, j \in DOMAIN ids : i < j /\ ids[i] = p[1] /\ ids[j] = p[2]}

\* RandomGeometricGraph: the graphs it can return
RandomGeometricGraph(n, mode) ==
    {GeneratedGraph(pos, {p \in PairsInOrder(ids) : distance(pos[p[1]], pos[p[2]]) <= Radius(n, mode)}) :
        pos \in Placements(n), ids \in Orders(1..n)}

\* the sets of nodes the sorted slice distances can have in its first
\* limit places: sort.Slice may put nodes of equal distance in any order
Nearest(pos, cur, k) ==
    LET others == DOMAIN pos \ {cur}
        limit  == IF k > Cardinality(others) THEN Cardinality(others) ELSE k
    IN  {S \in SUBSET others :
            /\ Cardinality(S) = limit
            /\ \A a \in S, b \in others \ S :
                 distance(pos[cur], pos[a]) <= distance(pos[cur], pos[b])}

\* KNNGraph: the graphs it can return; every node cur gets an edge
\* cur -> other to each of its nearest nodes
KNNGraph(n, k) ==
    UNION {{GeneratedGraph(pos, {a \in (DOMAIN pos) \X (DOMAIN pos) : a[2] \in near[a[1]]}) :
              near \in {f \in [DOMAIN pos -> SUBSET DOMAIN pos] :
                          \A cur \in DOMAIN pos : f[cur] \in Nearest(pos, cur, k)}} :
           pos \in Placements(n)}

\* the triangles delaunay.Triangulate can return for n points
Triangulations(n) == SUBSET {t \in SUBSET (1..n) : Cardinality(t) = 3}

\* DelaunayGraph: the graphs it can return; the sides of the triangles
\* become edges from the point of smaller index to the other one
DelaunayGraph(n) ==
    UNION {{GeneratedGraph(pos, {p \in PairsInOrder(ids) : \E t \in tri : {p[1], p[2]} \subseteq t}) :
              ids \in Orders(1..n), tri \in Triangulations(n)} :
           pos \in Placements(n)}

\* the random numbers ApplyWeightVariation draws for one edge: the
\* curvature and the speed variation in percent, the quality before
\* clamping in hundredths
Samples ==
    {[curvature |-> 100, speedVariation |-> 90, quality |-> 30],
     [curvature |-> 130, speedVariation |-> 110, quality |-> 120]}

Max(a, b) == IF a > b THEN a ELSE b
Lesser(a, b) == IF a < b THEN a ELSE b

\* centerBonus of an edge in hundredths, for bounds of 10 x 10; the
\* distances are taken between doubled coordinates
centerBonus(graph, edge) ==
    LET from == graph.Nodes[edge.From].Position
        to   == graph.Nodes[edge.To].Position
        distFromCenter    == distance(<<from[1] + to[1], from[2] + to[2]>>, <<10, 10>>)
        maxDistFromCenter == distance(<<0, 0>>, <<10, 10>>)
    IN  ((maxDistFromCenter - distFromCenter) * 10) \div maxDistFromCenter

\* one pass of the loop of ApplyWeightVariation (UseDistanceFromCenter set)
VariedEdge(graph, edge, sample) ==
    [edge EXCEPT !.Length = (@ * sample.curvature) \div 100,
                 !.BaseSpeedLimit = (@ * sample.speedVariation) \div 100,
                 !.SurfaceQuality =
                     Max(50, Lesser(100, Max(50, Lesser(100, sample.quality))
                                         + centerBonus(graph, edge)))]

\* ApplyWeightVariation: the graphs it can leave
ApplyWeightVariation(graph) ==
    {[graph EXCEPT !.Edges = [k \in DOMAIN graph.Edges |-> VariedEdge(graph, graph.Edges[k], draw[k])]] :
        draw \in [DOMAIN graph.Edges -> Samples]}

\* the configurations of the generator
GeneratorConfigs ==
    {c \in [Algorithm : {"rgg", "knn", "delaunay", "other"}, N : 2..MaxN, K : 0..MaxK,
            RadiusMode : {"Sparse", "Connected"}, EnsureConnectivity : BOOLEAN,
            WeightVariation : BOOLEAN] :
        /\ c.Algorithm = "knn" <=> c.K > 0
        /\ c.Algorithm # "rgg" => c.RadiusMode = "Sparse"
        /\ c.Algorithm = "other" => c.N = 2 /\ c.EnsureConnectivity /\ c.WeightVariation}

\* no graph was returned yet
NoGraph == [nil |-> TRUE]

\* no call of the generator is in progress
GeneratorIdle ==
    /\ cfg = [Algorithm |-> "other", N |-> 2, K |-> 0, RadiusMode |-> "Sparse",
              EnsureConnectivity |-> TRUE, WeightVariation |-> TRUE]
    /\ genPc = "done"
    /\ previous = NoGraph

\* a call cfg.Generate()
GenerateCall ==
    /\ cfg \in GeneratorConfigs
    /\ genPc = "generate"
    /\ previous = NoGraph
    /\ mg = EmptyGraph
    /\ components = << >>
    /\ compIdx = 0
    /\ repairPc = "done"

\* the switch of Generate: the graph is built; an unknown algorithm returns
\* the empty graph at once
GenerateGraph ==
    /\ genPc = "generate"
    /\ IF cfg.Algorithm = "other"
       THEN /\ mg' = EmptyGraph
            /\ genPc' = "done"
            /\ UNCHANGED repairPc
       ELSE /\ mg' \in CASE cfg.Algorithm = "rgg" -> RandomGeometricGraph(cfg.N, cfg.RadiusMode)
                         [] cfg.Algorithm = "knn" -> KNNGraph(cfg.N, cfg.K)
                         [] OTHER -> DelaunayGraph(cfg.N)
            /\ genPc' = "built"
            /\ repairPc' = IF cfg.EnsureConnectivity THEN "find" ELSE "done"
    /\ UNCHANGED <<cfg, previous, components, compIdx, engineVars, routingVars, kinVars, assignVars, telVars>>

\* after the repair, if any: the weights are varied and the graph returned
GenerateReturn ==
    /\ genPc = "built"
    /\ repairPc = "done"
    /\ IF cfg.WeightVariation
       THEN mg' \in ApplyWeightVariation(mg)
       ELSE UNCHANGED mg
    /\ genPc' = "done"
    /\ UNCHANGED <<cfg, previous, components, compIdx, repairPc, engineVars, routingVars, kinVars, assignVars, telVars>>

\* the caller keeps the graph returned and calls cfg.Generate() once more
\* on the same configuration
GenerateAgain ==
    /\ genPc = "done"
    /\ cfg.Algorithm # "other"
    /\ previous = NoGraph
    /\ previous' = mg
    /\ mg' = EmptyGraph
    /\ genPc' = "generate"
    /\ UNCHANGED <<cfg, components, compIdx, repairPc, engineVars, routingVars, kinVars, assignVars, telVars>>

\* the graphs handed to BuildEdgesFromConnections: nodes with symmetric
\* Connections and no edges
UnbuiltGraphs ==
    {[Nodes |-> GeneratedGraph(pos, adj).Nodes, Edges |-> << >>] :
        pos \in Placements(MaxN), adj \in SUBSET {p \in (1..MaxN) \X (1..MaxN) : p[1] < p[2]}}

\* a call BuildEdgesFromConnections(mg)
BuildCall ==
    /\ cfg = [Algorithm |-> "other", N |-> 2, K |-> 0, RadiusMode |-> "Sparse",
              EnsureConnectivity |-> TRUE, WeightVariation |-> TRUE]
    /\ genPc = "build"
    /\ previous = NoGraph
    /\ mg \in UnbuiltGraphs
    /\ components = << >>
    /\ compIdx = 0
    /\ repairPc = "done"

\* the edge BuildEdgesFromConnections creates when it comes from fromID to
\* toID first; the key of two 36-character IDs has 73 characters, which
\* gives the surface quality 0.95 + 0.05 * 73 / 100
BuiltEdge(graph, fromID, toID) ==
    [ID |-> IF fromID < toID THEN <<"-", fromID, toID>> ELSE <<"-", toID, fromID>>,
     From |-> fromID, To |-> toID,
     Length |-> distance(graph.Nodes[fromID].Position, graph.Nodes[toID].Position),
     BaseSpeedLimit |->
         baseSpeedLimit(distance(graph.Nodes[fromID].Position, graph.Nodes[toID].Position)),
     SurfaceQuality |-> 95 + (5 * (73 % 100)) \div 100,
     Bidirectional |-> TRUE]

\* BuildEdgesFromConnections: one edge for every adjacent pair, from the
\* node the range over mg.Nodes reaches first
BuildEdgesFromConnections ==
    /\ genPc = "build"
    /\ \E ids \in Orders(DOMAIN mg.Nodes) :
         LET arcs == {p \in PairsInOrder(ids) :
                        p[2] \in mg.Nodes[p[1]].Connections \/ p[1] \in mg.Nodes[p[2]].Connections}
         IN  mg' = [mg EXCEPT !.Edges =
                       [k \in DOMAIN mg.Edges \cup {BuiltEdge(mg, a[1], a[2]).ID : a \in arcs} |->
                          IF \E a \in arcs : BuiltEdge(mg, a[1], a[2]).ID = k
                          THEN BuiltEdge(mg, (CHOOSE a \in arcs : BuiltEdge(mg, a[1], a[2]).ID = k)[1],
                                             (CHOOSE a \in arcs : BuiltEdge(mg, a[1], a[2]).ID = k)[2])
                          ELSE mg.Edges[k]]]
    /\ genPc' = "done"
    /\ UNCHANGED <<cfg, previous, components, compIdx, repairPc, engineVars, routingVars, kinVars, assignVars, telVars>>

----------------------------------------------------------------------------
(* Route assignment: AssignVehicleRoute and AssignVehicleRouteWithNodes *)

\* a node ID that no graph has
AbsentNode == 0

\* the graphs routes are assigned on: between every ordered pair of nodes
\* no edge or one edge of length MaxLength; and the graph without nodes
AssignmentGraphs == {GraphOf(len) : len \in [OrderedPairs -> {0, MaxLength}]}

\* the positions of the nodes: spread out, or all in one place
Layouts ==
    {[n \in NodeIDs |-> IF n = 1 THEN <<0, 0>> ELSE IF n = 2 THEN <<3, 0>> ELSE <<0, 4>>],
     [n \in NodeIDs |-> <<0, 0>>]}

\* the graph argument: g with the Position of every node
PositionedGraph(graph, pos) ==
    [Nodes |-> [n \in DOMAIN graph.Nodes |->
                  [ID |-> n, Position |-> pos[n],
                   Connections |-> graph.Nodes[n].Connections]],
     Edges |-> graph.Edges]

\* selectSpawnNode: a random element of nodeIDs under every strategy
\* (selectDistributedNode draws one of up to five random elements)
selectSpawnNode(nodeIDs, strategy) ==
    IF Len(nodeIDs) = 0 THEN {AbsentNode} ELSE Range(nodeIDs)

RECURSIVE FarthestFrom(_, _, _, _, _, _, _)
\* the loop of selectFarthestNode from position k of nodeIDs on
FarthestFrom(nodeIDs, graph, fromNode, allowSame, k, maxDist, farthest) ==
    IF k > Len(nodeIDs) THEN farthest
    ELSE LET d == distance(graph.Nodes[fromNode].Position, graph.Nodes[nodeIDs[k]].Position)
         IN  IF ~allowSame /\ nodeIDs[k] = fromNode
             THEN FarthestFrom(nodeIDs, graph, fromNode, allowSame, k + 1, maxDist, farthest)
             ELSE IF d > maxDist
             THEN FarthestFrom(nodeIDs, graph, fromNode, allowSame, k + 1, d, nodeIDs[k])
             ELSE FarthestFrom(nodeIDs, graph, fromNode, allowSame, k + 1, maxDist, farthest)

selectFarthestNode(nodeIDs, graph, fromNode, allowSame) ==
    IF Len(nodeIDs) = 0 THEN AbsentNode
    ELSE FarthestFrom(nodeIDs, graph, fromNode, allowSame, 1, 0, nodeIDs[1])

\* selectTargetNode: the farthest node, or a random draw that is accepted
\* within ten tries, or the eleventh draw after ten rejected ones
selectTargetNode(nodeIDs, graph, spawnNode, strategy, allowSame) ==
    IF Len(nodeIDs) = 0 THEN {AbsentNode}
    ELSE IF strategy = "farthest"
    THEN {selectFarthestNode(nodeIDs, graph, spawnNode, allowSame)}
    ELSE {t \in Range(nodeIDs) : allowSame \/ t # spawnNode}
           \cup (IF \E t \in Range(nodeIDs) : ~(allowSame \/ t # spawnNode)
                 THEN Range(nodeIDs) ELSE {})

\* an edgeless route that is let through whatever the configuration says
RejectsEdgeless_Never(route, allowSame) == FALSE

\* if len(route.Edges) == 0 { if !config.AllowSameNode { return error } }
RejectsEdgeless(route, allowSame) == Len(route.Edges) = 0 /\ ~allowSame

\* an error return that takes the vehicle's route away
AssignmentFailed_Cleared(v) == [v EXCEPT !.Route = NoRoute]

\* the vehicle when an error is returned: nothing was written
AssignmentFailed(v) == v

\* the vehicle after the lines that populate Route and State
Assign(v, graph, route, spawnNode, targetNode) ==
    [AssignedVehicle(graph, [Edges |-> route.Edges, StartNode |-> spawnNode,
                             EndNode |-> targetNode])
        EXCEPT !.ID = v.ID]

\* a vehicle that has completed an earlier route from node 1 to node 2
ArrivedVehicle ==
    [ID |-> "v",
     Route |-> [Edges |-> << <<1, 2>> >>, CurrentEdgeIndex |-> 1,
                CurrentNode |-> 2, TargetNode |-> 2, StartNode |-> 1, EndNode |-> 2,
                CompletedAt |-> TRUE],
     State |-> [CurrentPosition |-> <<3, 0>>, Velocity |-> <<10, 0>>,
                CurrentEdge |-> <<1, 2>>, ProgressOnEdge |-> ProgressOne,
                Status |-> "arrived"]]

\* the calls: AssignVehicleRoute with a configuration, or
\* AssignVehicleRouteWithNodes with two node IDs that may be absent
AssignCalls ==
    {[fn |-> "AssignVehicleRoute", SpawnStrategy |-> "random", TargetStrategy |-> ts,
      AllowSameNode |-> a, startNode |-> AbsentNode, endNode |-> AbsentNode] :
        ts \in {"random", "farthest"}, a \in BOOLEAN}
    \cup
    {[fn |-> "AssignVehicleRouteWithNodes", SpawnStrategy |-> "specific",
      TargetStrategy |-> "specific", AllowSameNode |-> FALSE,
      startNode |-> s, endNode |-> e] :
        s \in NodeIDs \cup {AbsentNode}, e \in NodeIDs \cup {AbsentNode}}

\* no assignment is in progress
AssignmentIdle ==
    /\ avehicle = UnroutedVehicle
    /\ apositions = << >>
    /\ acall = [fn |-> "none"]
    /\ assignPc = "done"
    /\ assignErr = FALSE

\* a call of one of the two functions
AssignCall ==
    /\ \/ g \in AssignmentGraphs /\ apositions \in Layouts
       \/ g = EmptyGraph /\ apositions = << >>
    /\ start = AbsentNode
    /\ end = AbsentNode
    /\ dist = NoMap
    /\ prev = NoMap
    /\ unvisited = {}
    /\ routes = << >>
    /\ dijkstraPc = "done"
    /\ avehicle \in {UnroutedVehicle, ArrivedVehicle}
    /\ acall \in AssignCalls
    /\ assignPc = "call"
    /\ assignErr = FALSE

\* the call returns an error
AssignError ==
    /\ avehicle' = AssignmentFailed(avehicle)
    /\ assignErr' = TRUE
    /\ assignPc' = "done"

\* the call of Dijkstra(graph, s, t)
CallDijkstra(s, t) ==
    /\ start' = s
    /\ end' = t
    /\ dijkstraPc' = "init"
    /\ assignPc' = "routing"
    /\ UNCHANGED <<avehicle, assignErr, g, dist, prev, unvisited, routes, telVars>>

\* up to the call of Dijkstra: the checks of the graph and of the nodes,
\* and the selection of spawn and target
AssignSelect ==
    /\ assignPc = "call"
    /\ IF acall.fn = "AssignVehicleRoute"
       THEN IF DOMAIN g.Nodes = {}
            THEN AssignError /\ UNCHANGED routingVars
            ELSE \E nodeIDs \in Orders(DOMAIN g.Nodes) :
                 \E spawnNode \in selectSpawnNode(nodeIDs, acall.SpawnStrategy) :
                 \E targetNode \in selectTargetNode(nodeIDs, PositionedGraph(g, apositions),
                                                   spawnNode, acall.TargetStrategy,
                                                   acall.AllowSameNode) :
                    IF spawnNode = AbsentNode \/ targetNode = AbsentNode
                    THEN AssignError /\ UNCHANGED routingVars
                    ELSE CallDijkstra(spawnNode, targetNode)
       ELSE IF acall.startNode \notin DOMAIN g.Nodes \/ acall.endNode \notin DOMAIN g.Nodes
            THEN AssignError /\ UNCHANGED routingVars
            ELSE CallDijkstra(acall.startNode, acall.endNode)
    /\ UNCHANGED <<apositions, acall, engineVars, repairVars, kinVars, genVars, telVars>>

\* from the return of Dijkstra on
AssignReturn ==
    /\ assignPc = "routing"
    /\ dijkstraPc = "done"
    /\ IF Len(routes) = 0
       THEN AssignError
       ELSE IF acall.fn = "AssignVehicleRoute" /\ RejectsEdgeless(routes[1], acall.AllowSameNode)
       THEN AssignError
       ELSE /\ avehicle' = Assign(avehicle, PositionedGraph(g, apositions), routes[1], start, end)
            /\ assignErr' = FALSE
            /\ assignPc' = "done"
    /\ UNCHANGED <<apositions, acall, routingVars, engineVars, repairVars, kinVars, genVars, telVars>>

----------------------------------------------------------------------------
(* A journey: the vehicle of a route assignment under kinematic updates *)

\* the graph of the assignment with a base speed limit of 1 m/s on every
\* edge and, as the generators set it, the same effective speed limit
RoadGraph(graph, pos) ==
    [Nodes |-> PositionedGraph(graph, pos).Nodes,
     Edges |-> [k \in DOMAIN graph.Edges |->
                  [ID |-> graph.Edges[k].ID,
                   From |-> graph.Edges[k].From, To |-> graph.Edges[k].To,
                   Length |-> graph.Edges[k].Length,
                   BaseSpeedLimit |-> 1, EffectiveSpeedLimit |-> 1,
                   Bidirectional |-> graph.Edges[k].Bidirectional]]]

\* the deltas of the updates of a journey: one second, or long enough to
\* pass any edge at once
JourneyDeltas == {1000, MaxLength * 1000}

\* a call UpdateVehiclePosition(avehicle, graph, delta) on the vehicle the
\* assignment has populated
Drive(delta) ==
    /\ assignPc = "done"
    /\ ~assignErr
    /\ avehicle' = UpdateVehiclePosition(avehicle, RoadGraph(g, apositions), delta).vehicle
    /\ UNCHANGED <<apositions, acall, assignPc, assignErr, routingVars, engineVars, repairVars, kinVars, genVars, telVars>>

----------------------------------------------------------------------------
(* The telemetry sink *)

\* the capacity of the largest sink channel
MaxCap == 2

\* the samples (entities.BasicVehiclePosEvent) a caller may hand over
PosEvents == [VehicleID : VehicleIDs, Progress : {0, ProgressOne}]

NoEvent == [VehicleID |-> "", Progress |-> 0]

\* the zero value of the field Events, and make(chan BasicVehiclePosEvent, c)
NilEvents == [nil |-> TRUE, cap |-> 0, buf |-> << >>]
MakeEvents(c) == [nil |-> FALSE, cap |-> c, buf |-> << >>]

\* whether a send on ch can proceed at once: the buffer has room, or a
\* receiver is parked on the channel; a send on a nil channel never proceeds
CanSend(ch, parked) == ~ch.nil /\ (Len(ch.buf) < ch.cap \/ parked)

\* a variant that makes room by discarding the oldest sample
EmitPosition_Overwrite(ch, parked, event) ==
    IF CanSend(ch, parked)
    THEN IF parked
         THEN [Events |-> ch, handed |-> TRUE, err |-> FALSE]
         ELSE [Events |-> [ch EXCEPT !.buf = Append(@, event)], handed |-> FALSE, err |-> FALSE]
    ELSE IF ch.nil \/ ch.cap = 0
         THEN [Events |-> ch, handed |-> FALSE, err |-> TRUE]
         ELSE [Events |-> [ch EXCEPT !.buf = Append(Tail(@), event)], handed |-> FALSE, err |-> FALSE]

\* select { case t.Events <- event: return nil
\*          default: return fmt.Errorf("telemetry channel full") }
\* The send hands the sample to a parked receiver if there is one, and puts
\* it into the buffer otherwise.
EmitPosition(ch, parked, event) ==
    IF CanSend(ch, parked)
    THEN IF parked
         THEN [Events |-> ch, handed |-> TRUE, err |-> FALSE]
         ELSE [Events |-> [ch EXCEPT !.buf = Append(@, event)], handed |-> FALSE, err |-> FALSE]
    ELSE [Events |-> ch, handed |-> FALSE, err |-> TRUE]

\* no emitter is in use
TelemetryIdle ==
    /\ Events = NilEvents
    /\ emit = [pc |-> "idle", event |-> NoEvent, err |-> FALSE]
    /\ consumer = [pc |-> "idle", taken |-> NoEvent]

\* an emitter whose channel is nil, unbuffered or buffered
TelemetryStart ==
    /\ Events \in {NilEvents} \cup {MakeEvents(c) : c \in 0..MaxCap}
    /\ emit = [pc |-> "idle", event |-> NoEvent, err |-> FALSE]
    /\ consumer = [pc |-> "idle", taken |-> NoEvent]

\* a caller enters t.EmitPosition(event)
EmitCall(event) ==
    /\ emit.pc \in {"idle", "returned"}
    /\ emit' = [pc |-> "select", event |-> event, err |-> FALSE]
    /\ UNCHANGED <<Events, consumer, engineVars, routingVars, repairVars, kinVars, genVars, assignVars>>

\* the select statement and the return
EmitSelect ==
    /\ emit.pc = "select"
    /\ LET r == EmitPosition(Events, consumer.pc = "parked", emit.event)
       IN  /\ Events' = r.Events
           /\ emit' = [emit EXCEPT !.pc = "returned", !.err = r.err]
           /\ consumer' = IF r.handed
                          THEN [pc |-> "idle", taken |-> emit.event]
                          ELSE consumer
    /\ UNCHANGED <<engineVars, routingVars, repairVars, kinVars, genVars, assignVars>>

\* the consumer receives: it takes the oldest buffered sample, or parks on
\* the empty channel until a sender arrives
Receive ==
    /\ ~Events.nil
    /\ consumer.pc = "idle"
    /\ IF Len(Events.buf) > 0
       THEN /\ consumer' = [pc |-> "idle", taken |-> Head(Events.buf)]
            /\ Events' = [Events EXCEPT !.buf = Tail(@)]
       ELSE /\ consumer' = [consumer EXCEPT !.pc = "parked"]
            /\ UNCHANGED Events
    /\ UNCHANGED <<emit, engineVars, routingVars, repairVars, kinVars, genVars, assignVars>>

----------------------------------------------------------------------------
(* The engine's specification *)

Init == EngineInit /\ RoutingIdle /\ RepairIdle /\ KinematicsIdle /\ GeneratorIdle /\ AssignmentIdle /\ TelemetryIdle

Next ==
    \/ Start
    \/ StopBegin
    \/ StopReturn
    \/ \E o \in VehicleObjs : AddVehicle(o)
    \/ \E id \in VehicleIDs : RemoveVehicle(id)
    \/ \E w \in Slots : WorkerStart(w)
    \/ \E w \in Slots : WorkerTick(w)
    \/ \E w \in Slots : WorkerLock(w)
    \/ \E w \in Slots : WorkerUpdate(w)
    \/ \E w \in Slots : WorkerCheck(w)
    \/ \E w \in Slots : WorkerStop(w)

Spec == Init /\ [][Next]_vars

\* the engine together with a client of the list operation
NextAPI ==
    \/ Next
    \/ GetVehiclesRLock
    \/ \E o \in VehicleObjs : GetVehiclesEncode(o)
    \/ GetVehiclesReturn

SpecAPI == Init /\ [][NextAPI]_vars

\* Every goroutine keeps being scheduled and its ticker keeps firing; the
\* select of a worker whose stop channel is closed takes that case sooner or
\* later; sync.Mutex does not starve a waiter; wg.Wait returns once the
\* counter is zero.
Fairness ==
    /\ \A w \in Slots : WF_vars(WorkerStart(w))
    /\ \A w \in Slots : WF_vars(WorkerTick(w))
    /\ \A w \in Slots : SF_vars(WorkerLock(w))
    /\ \A w \in Slots : WF_vars(WorkerUpdate(w))
    /\ \A w \in Slots : WF_vars(WorkerCheck(w))
    /\ \A w \in Slots : SF_vars(WorkerStop(w))
    /\ WF_vars(StopReturn)

FairSpec == Spec /\ Fairness

----------------------------------------------------------------------------
(* The engine with its readers: the list operation of the API and the *)
(* reader of the concurrency test.  A call that waits for a lock is an *)
(* action that is not enabled.                                         *)

NextReaders ==
    \/ NextAPI
    \/ ListRLock
    \/ \E o \in VehicleObjs : ListNext(o)
    \/ ListLock
    \/ ListUnlock
    \/ ListReturn

SpecReaders == Init /\ [][NextReaders]_vars

----------------------------------------------------------------------------
(* The router's specification: one call of Dijkstra on any bounded graph *)

InitDijkstra == EngineInit /\ DijkstraCall /\ RepairIdle /\ KinematicsIdle /\ GeneratorIdle /\ AssignmentIdle /\ TelemetryIdle

NextDijkstra ==
    \/ DijkstraInit
    \/ DijkstraVisit
    \/ DijkstraBreak
    \/ DijkstraReturn

SpecDijkstra == InitDijkstra /\ [][NextDijkstra]_vars

----------------------------------------------------------------------------
(* The repair's specification: one call of EnsureGraphConnectivity on any *)
(* bounded graph with symmetric adjacency                                 *)

InitConnectivity == EngineInit /\ RoutingIdle /\ RepairCall /\ KinematicsIdle /\ GeneratorIdle /\ AssignmentIdle /\ TelemetryIdle

NextConnectivity ==
    \/ RepairFind
    \/ RepairConnect
    \/ RepairReturn

SpecConnectivity == InitConnectivity /\ [][NextConnectivity]_vars

----------------------------------------------------------------------------
(* The kinematic specification: any number of updates of one vehicle *)

InitKinematics ==
    /\ EngineInit /\ RoutingIdle /\ RepairIdle /\ GeneratorIdle /\ AssignmentIdle /\ TelemetryIdle
    /\ KinematicsStart
    /\ khistory = Uncounted

NextKinematics == KinematicUpdate

SpecKinematics == InitKinematics /\ [][NextKinematics]_vars

\* the same updates with the calls counted from the first one
InitCalls ==
    /\ EngineInit /\ RoutingIdle /\ RepairIdle /\ GeneratorIdle /\ AssignmentIdle /\ TelemetryIdle
    /\ KinematicsStart
    /\ khistory = NoCalls

SpecCalls == InitCalls /\ [][NextKinematics]_vars

\* the caller keeps calling, with a positive delta again and again
FairKinematics ==
    SpecKinematics /\ WF_vars(\E delta \in DeltaChoices \ {0} : Update(delta))

----------------------------------------------------------------------------
(* The generator's specification: one call of Generate or of *)
(* BuildEdgesFromConnections                                 *)

InitGenerator ==
    /\ EngineInit /\ RoutingIdle /\ KinematicsIdle /\ AssignmentIdle /\ TelemetryIdle
    /\ (GenerateCall \/ BuildCall)

NextGenerator ==
    \/ GenerateGraph
    \/ RepairFind
    \/ RepairConnect
    \/ RepairReturn
    \/ GenerateReturn
    \/ BuildEdgesFromConnections

SpecGenerator == InitGenerator /\ [][NextGenerator]_vars

\* two calls of Generate on one configuration of two nodes
InitGenerateTwice ==
    /\ EngineInit /\ RoutingIdle /\ KinematicsIdle /\ AssignmentIdle /\ TelemetryIdle
    /\ GenerateCall
    /\ cfg.N = 2

NextGenerateTwice ==
    \/ GenerateGraph
    \/ RepairFind
    \/ RepairConnect
    \/ RepairReturn
    \/ GenerateReturn
    \/ GenerateAgain

SpecGenerateTwice == InitGenerateTwice /\ [][NextGenerateTwice]_vars

----------------------------------------------------------------------------
(* The specification of route assignment: one call on any bounded graph *)

InitAssignment ==
    /\ EngineInit /\ RepairIdle /\ KinematicsIdle /\ GeneratorIdle /\ TelemetryIdle
    /\ AssignCall

NextAssignment ==
    \/ AssignSelect
    \/ DijkstraInit
    \/ DijkstraVisit
    \/ DijkstraBreak
    \/ DijkstraReturn
    \/ AssignReturn

SpecAssignment == InitAssignment /\ [][NextAssignment]_vars

----------------------------------------------------------------------------
(* The repair's specification with the graph without nodes among the *)
(* arguments                                                         *)

\* a call EnsureGraphConnectivity(mg) on a graph without nodes
RepairCallEmpty ==
    /\ mg = EmptyGraph
    /\ components = << >>
    /\ compIdx = 0
    /\ repairPc = "find"

InitRepair ==
    /\ EngineInit /\ RoutingIdle /\ KinematicsIdle /\ GeneratorIdle /\ AssignmentIdle /\ TelemetryIdle
    /\ (RepairCall \/ RepairCallEmpty)

SpecRepair == InitRepair /\ [][NextConnectivity]_vars

----------------------------------------------------------------------------
(* The specification of a journey: one route assignment on any bounded *)
(* graph, then any number of kinematic updates of its vehicle          *)

InitJourney == InitAssignment

NextJourney ==
    \/ NextAssignment
    \/ \E delta \in JourneyDeltas : Drive(delta)

SpecJourney == InitJourney /\ [][NextJourney]_vars

----------------------------------------------------------------------------
(* The specification of the telemetry sink: any number of calls of *)
(* EmitPosition against a consumer that receives when it likes      *)

InitTelemetry ==
    /\ EngineInit /\ RoutingIdle /\ RepairIdle /\ KinematicsIdle /\ GeneratorIdle /\ AssignmentIdle
    /\ TelemetryStart

NextTelemetry ==
    \/ \E event \in PosEvents : EmitCall(event)
    \/ EmitSelect
    \/ Receive

SpecTelemetry == InitTelemetry /\ [][NextTelemetry]_vars

----------------------------------------------------------------------------
(* Claims about the engine *)

NoLiveWorker == \A w \in Slots : ~Live(w)
StopSignalClosed(w) == IsClosed(vehicle[workers[w].vehicle].StopChan)

\* C1: while the engine is running, every registered vehicle whose route is
\* not complete has exactly one live worker.
C1_ExactlyOneWorker ==
    IsRunning =>
        \A o \in Registered : ~RouteComplete(o) => Cardinality(LiveWorkersOf(o)) = 1

\* C2: a Stop that has begun returns; when it returns no worker is live and
\* the engine is not running; and whenever the engine is not running and no
\* Stop is waiting (so that a Stop called now returns at once) no worker is live.
C2_StopReturnsClean ==
    /\ (Mutex.writer = "stop") ~> (Mutex.writer = "free")
    /\ [][(Mutex.writer = "stop" /\ Mutex'.writer = "free")
            => (NoLiveWorker' /\ ~IsRunning')]_vars
    /\ []((~IsRunning /\ Mutex.writer = "free") => NoLiveWorker)

\* Stop is waiting for the worker of a vehicle that was removed earlier
C2_Witness ==
    /\ Mutex.writer = "stop"
    /\ \E w \in Slots : Live(w) /\ workers[w].vehicle \notin Registered

\* C3: at most one worker is inside the kinematic update of a vehicle, and a
\* worker inside the update holds that vehicle's mutex.
C3_UpdatesExclusive ==
    /\ \A o \in VehicleObjs :
          Cardinality({w \in Slots : workers[w].pc = "update" /\ workers[w].vehicle = o}) <= 1
    /\ \A w \in Slots : workers[w].pc = "update" => vmutex[workers[w].vehicle] = w

\* two workers of one vehicle: one updates it, the other waits for its mutex
C3_Witness ==
    \E w1, w2 \in Slots :
        /\ w1 # w2
        /\ workers[w1].vehicle = workers[w2].vehicle
        /\ workers[w1].pc = "update"
        /\ workers[w2].pc = "lock"

\* C4: while the list operation reads a vehicle it holds the engine's read
\* lock and no worker is inside the kinematic update of that vehicle.
C4_SnapshotConsistent ==
    reader.encoding # NoVehicle =>
        /\ Mutex.readers > 0
        /\ vmutex[reader.encoding] = 0

\* C5: a worker exits only with its vehicle's route complete or its stop
\* signal closed; after the check that finds the route complete it is gone;
\* and a worker whose vehicle's stop signal is closed exits.
C5_WorkerExits ==
    /\ [][\A w \in Slots :
            (Live(w) /\ ~Live(w)') =>
                (RouteComplete(workers[w].vehicle) \/ IsClosed(workers[w].watch))]_vars
    /\ [][\A w \in Slots :
            (workers[w].pc = "check" /\ RouteComplete(workers[w].vehicle)
               /\ workers'[w].pc # "check") => ~Live(w)']_vars
    /\ \A w \in Slots : [](Live(w) /\ StopSignalClosed(w) => <>(~Live(w)))

\* C6: once the update of a worker has returned an error, the vehicle is in
\* breakdown and the worker does not tick again.
C6_ErrorBreaksDown ==
    \A w \in Slots :
        workers[w].err =>
            /\ vehicle[workers[w].vehicle].State.Status = "breakdown"
            /\ workers[w].pc \notin {"select", "lock", "update"}

\* C7: the dt a worker passes to the kinematic update is at most the safe maximum.
C7_DtClamped ==
    \A w \in Slots : workers[w].pc \in {"lock", "update"} => workers[w].dt <= MaxSafeDt

----------------------------------------------------------------------------
(* Claims about the router *)

Returned == dijkstraPc = "done" /\ routes # << >>

\* the least length of a path of at most k edges from s to each node
RECURSIVE ShortestWithin(_, _, _)
ShortestWithin(graph, s, k) ==
    IF k = 0 THEN [n \in DOMAIN graph.Nodes |-> IF n = s THEN 0 ELSE Inf]
    ELSE LET d == ShortestWithin(graph, s, k - 1)
         IN  [n \in DOMAIN graph.Nodes |->
                Min({d[n]} \cup UNION {{d[m] + e.Length : e \in findEdge(graph, m, n)} :
                                         m \in {x \in DOMAIN graph.Nodes : d[x] < Inf}})]

ShortestDistance(graph, s, t) ==
    ShortestWithin(graph, s, Cardinality(DOMAIN graph.Nodes) - 1)[t]

\* C8: when Dijkstra returns a route, its TotalDistance is not larger than
\* the sum of the edge lengths of any path of the graph between the same
\* endpoints.
C8_RouteOptimal ==
    Returned => routes[1].TotalDistance <= ShortestDistance(g, start, end)

\* no pair of nodes is joined by two edges
NoParallelEdges ==
    \A a, b \in DOMAIN g.Nodes : Cardinality(findEdge(g, a, b)) <= 1

\* on graphs with one edge per adjacent pair the returned route is a shortest one
OptimalWithoutParallelEdges ==
    (Returned /\ NoParallelEdges) => routes[1].TotalDistance = ShortestDistance(g, start, end)

\* the edges ids lead from node s to node t, each one joining the node
\* reached so far to the next
IsWalk(graph, ids, s, t) ==
    \E ns \in [1..(Len(ids) + 1) -> DOMAIN graph.Nodes] :
        /\ ns[1] = s
        /\ ns[Len(ids) + 1] = t
        /\ \A k \in 1..Len(ids) :
             /\ ids[k] \in DOMAIN graph.Edges
             /\ {graph.Edges[ids[k]].From, graph.Edges[ids[k]].To} = {ns[k], ns[k + 1]}

RECURSIVE SumOfLengths(_, _)
SumOfLengths(graph, ids) ==
    IF ids = << >> THEN 0
    ELSE graph.Edges[Head(ids)].Length + SumOfLengths(graph, Tail(ids))

\* C9: a returned route has StartNode = start and EndNode = end, its edges
\* are a connected walk of the graph from start to end, and TotalDistance
\* is the sum of the lengths of exactly those edges.
C9_RouteValid ==
    Returned =>
        /\ routes[1].StartNode = start
        /\ routes[1].EndNode = end
        /\ IsWalk(g, routes[1].Edges, start, end)
        /\ routes[1].TotalDistance = SumOfLengths(g, routes[1].Edges)

\* a route of two edges has been returned
C9_Witness == Returned /\ Len(routes[1].Edges) >= 2

----------------------------------------------------------------------------
(* Claims about the connectivity repair *)

\* the nodes reachable from the set S along Connections
RECURSIVE Reachable(_, _)
Reachable(graph, S) ==
    LET T == S \cup UNION {graph.Nodes[n].Connections : n \in S}
    IN  IF T = S THEN S ELSE Reachable(graph, T)

ConnectedComponents(graph) == {Reachable(graph, {n}) : n \in DOMAIN graph.Nodes}

\* C10: after EnsureGraphConnectivity has run on a graph with symmetric
\* adjacency and at least two nodes, the graph has exactly one connected
\* component.
C10_OneComponent ==
    repairPc = "done" => Cardinality(ConnectedComponents(mg)) = 1

\* the call has returned after joining three or more components
C10_Witness == repairPc = "done" /\ Len(components) >= 3


----------------------------------------------------------------------------
(* Claims about the generator *)

\* the edges of the edge map that join u and v
EdgesBetween(graph, u, v) ==
    {k \in DOMAIN graph.Edges : {graph.Edges[k].From, graph.Edges[k].To} = {u, v}}

SymmetricOneEdgePerPair(graph) ==
    /\ \A k \in DOMAIN graph.Edges :
         /\ graph.Edges[k].To \in graph.Nodes[graph.Edges[k].From].Connections
         /\ graph.Edges[k].From \in graph.Nodes[graph.Edges[k].To].Connections
    /\ \A u \in DOMAIN graph.Nodes :
         \A v \in graph.Nodes[u].Connections :
            Cardinality(EdgesBetween(graph, u, v)) = 1

\* C11: in every graph the generator (any algorithm, with or without the
\* connectivity repair) or BuildEdgesFromConnections returns, both endpoints
\* of every edge are adjacent to each other and every adjacent pair of
\* nodes has exactly one edge in the edge map.
C11_OneEdgePerPair ==
    genPc = "done" => SymmetricOneEdgePerPair(mg)

\* the same for every call but the k-nearest-neighbour generator's
OneEdgePerPairUnlessKNN ==
    (genPc = "done" /\ cfg.Algorithm # "knn") => SymmetricOneEdgePerPair(mg)


----------------------------------------------------------------------------
(* Claims about the kinematic update *)

\* the vehicle has a route that is not complete
Incomplete(v) == v.Route # NoRoute /\ ~v.Route.CompletedAt

\* the update will advance the vehicle on an edge of the graph
OnEdge(v, graph) ==
    /\ Incomplete(v)
    /\ v.Route.CurrentEdgeIndex < Len(v.Route.Edges)
    /\ v.Route.Edges[v.Route.CurrentEdgeIndex + 1] \in DOMAIN graph.Edges

RouteEdge(v, graph) == graph.Edges[v.Route.Edges[v.Route.CurrentEdgeIndex + 1]]

\* speed * dt / length, the speed being the effective speed limit when it is
\* positive and the base speed limit otherwise (in millionths, dt in ms)
ExpectedIncrement(edge, dt) ==
    ((IF edge.EffectiveSpeedLimit > 0 THEN edge.EffectiveSpeedLimit ELSE edge.BaseSpeedLimit)
       * dt * 1000) \div edge.Length

\* the call being made brings the progress to the end of the current edge
ReachesEdgeEnd ==
    /\ OnEdge(kv, kgraph)
    /\ kv.State.ProgressOnEdge + ExpectedIncrement(RouteEdge(kv, kgraph), kdelta') >= ProgressThreshold

OnLastEdge(v) == v.Route.CurrentEdgeIndex + 1 = Len(v.Route.Edges)

Completed(v) == v.Route # NoRoute /\ v.Route.CompletedAt

\* every edge of the vehicle's route is an edge of the graph, of positive
\* length and speed
RouteKnown(v, graph) ==
    /\ v.Route # NoRoute
    /\ \A k \in DOMAIN v.Route.Edges :
         /\ v.Route.Edges[k] \in DOMAIN graph.Edges
         /\ graph.Edges[v.Route.Edges[k]].Length > 0
         /\ ExpectedIncrement(graph.Edges[v.Route.Edges[k]], 1000) > 0

\* the vehicle after n calls with the same delta
RECURSIVE Repeated(_, _, _, _)
Repeated(v, graph, delta, n) ==
    IF n = 0 THEN v
    ELSE UpdateVehiclePosition(Repeated(v, graph, delta, n - 1), graph, delta).vehicle

\* a vehicle at the start of a route over one edge of 100 m at 10 m/s
AtStartOfSingleEdge ==
    /\ kv = AssignedVehicle(kgraph, [Edges |-> <<"A-B">>, StartNode |-> "A", EndNode |-> "B"])
    /\ kgraph.Edges["A-B"].Length = 100
    /\ kgraph.Edges["A-B"].EffectiveSpeedLimit = 10

\* C13: a route over existing edges of positive length and speed is
\* completed (completedAt set, status arrived) after finitely many updates
\* of positive dt, at the first call that brings the progress on the last
\* edge to 1 - epsilon and not before; one edge of 100 m at 10 m/s with
\* dt = 1 s is completed by the 10th call.
C13_CompletesInTime ==
    /\ [](RouteKnown(kv, kgraph) => <>(Completed(kv) /\ kv.State.Status = "arrived"))
    /\ [][(ReachesEdgeEnd /\ OnLastEdge(kv)) =>
            (Completed(kv') /\ kv'.State.Status = "arrived")]_vars
    /\ [][(OnEdge(kv, kgraph) /\ ~(ReachesEdgeEnd /\ OnLastEdge(kv))) => ~Completed(kv')]_vars
    /\ [](AtStartOfSingleEdge =>
            /\ ~Completed(Repeated(kv, kgraph, 1000, 9))
            /\ Completed(Repeated(kv, kgraph, 1000, 10))
            /\ Repeated(kv, kgraph, 1000, 10).State.Status = "arrived")

\* the two-edge route has been completed
C13_Witness ==
    /\ Completed(kv)
    /\ kv.Route.Edges = <<"A-B", "B-C">>
    /\ kv.State.Status = "arrived"


\* C14: right after the update that completes a route, by the last waypoint
\* transition or by the early exit for an index past the end, the position
\* is the position of route.endNode, the velocity is (0,0), the status is
\* arrived and completedAt is set.
C14_TerminalSnap ==
    [][(Incomplete(kv) /\ Completed(kv')) =>
         /\ kv'.State.CurrentPosition = kgraph.Nodes[kv'.Route.EndNode].Position
         /\ kv'.State.Velocity = <<0, 0>>
         /\ kv'.State.Status = "arrived"]_vars

\* a route has been completed by its last waypoint transition, at C
C14_Witness ==
    /\ Completed(kv)
    /\ kv.Route.CurrentEdgeIndex = 2
    /\ kv.State.ProgressOnEdge = ProgressOne
    /\ kv.State.CurrentPosition = <<100, 100>>

\* a route without edges has been completed by the early exit
CompletedByEarlyExit ==
    /\ Completed(kv)
    /\ kv.Route.Edges = << >>
    /\ kv.State.CurrentPosition = <<0, 0>>


\* the edge at currentEdgeIndex of an incomplete route is absent from the graph
CurrentEdgeAbsent(v, graph) ==
    /\ Incomplete(v)
    /\ v.Route.CurrentEdgeIndex < Len(v.Route.Edges)
    /\ v.Route.Edges[v.Route.CurrentEdgeIndex + 1] \notin DOMAIN graph.Edges

\* C15: the update returns an error exactly when the route is incomplete,
\* currentEdgeIndex < len(edges) and the edge at currentEdgeIndex is absent
\* from the graph; the vehicle's state and route are then unchanged.
C15_ErrorOnlyOnAbsentEdge ==
    [][/\ kerr' <=> CurrentEdgeAbsent(kv, kgraph)
       /\ kerr' => kv' = kv]_vars

\* an update has failed on the second edge of the route A-B, X-Y
C15_Witness ==
    /\ kerr
    /\ kv.Route # NoRoute
    /\ kv.Route.Edges = <<"A-B", "X-Y">>
    /\ kv.Route.CurrentEdgeIndex = 1


\* C16: on a tick that does not reach the end of the current edge,
\* progressOnEdge grows by exactly speed * dt / length, the speed being the
\* edge's effective speed limit when positive and its base speed limit
\* otherwise, and the status becomes moving.
C16_ProgressIncrement ==
    [][(OnEdge(kv, kgraph) /\ ~ReachesEdgeEnd) =>
         /\ kv'.State.ProgressOnEdge =
              kv.State.ProgressOnEdge + ExpectedIncrement(RouteEdge(kv, kgraph), kdelta')
         /\ kv'.State.Status = "moving"
         /\ kv'.Route.CurrentEdgeIndex = kv.Route.CurrentEdgeIndex]_vars

\* one tick of 1 s on A-B with no effective speed limit: 15 m of 100 m
C16_Witness ==
    /\ Incomplete(kv)
    /\ kgraph.Edges["A-B"].EffectiveSpeedLimit = 0
    /\ kv.Route.CurrentEdgeIndex = 0
    /\ kv.State.ProgressOnEdge = 150000
    /\ kv.State.Status = "moving"
    /\ kdelta = 1000


\* the distance travelled along the route, in millionths of a metre: the
\* lengths of the edges before currentEdgeIndex plus progressOnEdge times
\* the length of the current edge
RECURSIVE LengthBefore(_, _, _)
LengthBefore(v, graph, k) ==
    IF k = 0 THEN 0
    ELSE LengthBefore(v, graph, k - 1) + graph.Edges[v.Route.Edges[k]].Length * ProgressOne

Travelled(v, graph) ==
    LengthBefore(v, graph, v.Route.CurrentEdgeIndex)
    + (IF v.Route.CurrentEdgeIndex < Len(v.Route.Edges)
       THEN v.State.ProgressOnEdge * RouteEdge(v, graph).Length
       ELSE 0)

\* C17: with dt >= 0 and positive speeds the distance travelled never
\* decreases from one update to the next while the route is incomplete,
\* waypoint transitions included.
C17_MonotoneProgress ==
    [][(RouteKnown(kv, kgraph) /\ Incomplete(kv) /\ Incomplete(kv')) =>
         Travelled(kv', kgraph) >= Travelled(kv, kgraph)]_vars

\* the vehicle is under way on the second edge, 110 m from the start
C17_Witness ==
    /\ RouteKnown(kv, kgraph)
    /\ Incomplete(kv)
    /\ kv.Route.CurrentEdgeIndex = 1
    /\ Travelled(kv, kgraph) = 110 * ProgressOne


C19_CompletedIsFrozen ==
    [][Completed(kv) =>
         /\ ~kerr'
         /\ kv'.State.Status = "arrived"
         /\ kv'.Route = kv.Route
         /\ kv'.State.CurrentPosition = kv.State.CurrentPosition
         /\ kv'.State.Velocity = kv.State.Velocity
         /\ kv'.State.ProgressOnEdge = kv.State.ProgressOnEdge
         /\ kv' = [kv EXCEPT !.State.Status = "arrived"]]_vars

\* an update has run on a vehicle that was completed at the start of its
\* only edge: it is marked arrived where it stood
C19_Witness ==
    /\ Completed(kv)
    /\ Len(kv.Route.Edges) = 1
    /\ kv.Route.CurrentEdgeIndex = 0
    /\ kv.State.ProgressOnEdge = 0
    /\ kv.State.Status = "arrived"
    /\ kdelta > 0


----------------------------------------------------------------------------
(* Claims about the engine's registry *)

\* the goroutines that are live after the step and were not before it
Spawned == {w \in Slots : workers'[w].pc # "none" /\ workers[w].pc = "none"}

\* C20: AddVehicle with an ID that is already registered changes nothing:
\* the registry, the vehicles, their stop channels and the workers are as
\* before.  With a fresh ID the vehicle is put in the registry under its ID
\* with a new, open stop channel that no goroutine and no other vehicle
\* holds, and one worker is spawned for it if the engine is running and
\* none if it is not.
C20_AddVehicle ==
    [][\A o \in VehicleObjs : AddVehicle(o) =>
         IF Vehicles[vehicle[o].ID] # NoVehicle
         THEN /\ Vehicles' = Vehicles
              /\ vehicle' = vehicle
              /\ closedChans' = closedChans
              /\ workers' = workers
              /\ wg' = wg
         ELSE /\ Vehicles'[vehicle[o].ID] = o
              /\ \A id \in VehicleIDs \ {vehicle[o].ID} : Vehicles'[id] = Vehicles[id]
              /\ vehicle'[o].StopChan \notin {NilChan, StaleOpen, StaleClosed}
              /\ vehicle'[o].StopChan \notin closedChans'
              /\ \A w \in Slots : workers'[w].watch # vehicle'[o].StopChan
              /\ \A p \in VehicleObjs \ {o} : vehicle'[p].StopChan # vehicle'[o].StopChan
              /\ \A w \in Slots : Live(w) =>
                    /\ workers'[w].pc = workers[w].pc
                    /\ workers'[w].vehicle = workers[w].vehicle
              /\ Cardinality(Spawned) = IF IsRunning THEN 1 ELSE 0
              /\ \A w \in Spawned : workers'[w].vehicle = o /\ workers'[w].pc = "start"
              /\ wg' = IF IsRunning THEN wg + 1 ELSE wg]_vars

\* a vehicle was removed and added again while the engine runs: it is
\* registered with an open channel, a new worker stands at its first
\* statement, and the worker from before still holds the replaced channel
C20_Witness ==
    /\ IsRunning
    /\ Vehicles["a"] = 1
    /\ vehicle[1].StopChan = MakeChan(1)
    /\ ~IsClosed(vehicle[1].StopChan)
    /\ \E w \in Slots : workers[w].pc = "start" /\ workers[w].vehicle = 1
    /\ \E w \in Slots : Live(w) /\ workers[w].watch = StaleClosed


\* what RemoveVehicle(id) does to the registry and the channels
RemoveVehicleEffect(id) ==
    IF Vehicles[id] = NoVehicle
    THEN UNCHANGED <<IsRunning, Vehicles, wg, vehicle, vmutex, closedChans, workers>>
    ELSE /\ Vehicles'[id] = NoVehicle
         /\ \A other \in VehicleIDs \ {id} : Vehicles'[other] = Vehicles[other]
         /\ IsRunning => vehicle[Vehicles[id]].StopChan \in closedChans'
         /\ ~IsRunning => closedChans' = closedChans
         /\ UNCHANGED <<IsRunning, wg, vehicle, vmutex, workers>>

\* worker w serves a vehicle that was removed from the running engine: the
\* vehicle is not registered and its stop signal is closed
RemovedWhileRunning(w) ==
    /\ Live(w)
    /\ IsRunning
    /\ workers[w].vehicle \notin Registered
    /\ StopSignalClosed(w)

C21_RemoveIsLocal == [][\A id \in VehicleIDs : RemoveVehicle(id) => RemoveVehicleEffect(id)]_vars

\* C21: RemoveVehicle of an absent ID changes nothing; RemoveVehicle of a
\* registered ID deletes it from the registry and, when the engine is
\* running, closes its stop signal; the worker of a vehicle so removed
\* eventually exits.
C21_RemoveStopsWorker ==
    /\ C21_RemoveIsLocal
    /\ \A w \in Slots : [](RemovedWhileRunning(w) => <>(~Live(w)))


\* C22: in no sequence of Start, Stop, AddVehicle and RemoveVehicle calls is
\* a closed or a nil stop channel closed: no close panics, and every
\* registered vehicle has a channel that was made for it.
C22_NoBadClose ==
    /\ Panicked \notin closedChans
    /\ \A o \in Registered : vehicle[o].StopChan = MakeChan(o)

\* the engine was stopped and started again, so a registered vehicle's
\* channel is closed already when the next Stop or RemoveVehicle comes, and
\* another vehicle was removed before
C22_Witness ==
    /\ IsRunning
    /\ \E o \in Registered : IsClosed(vehicle[o].StopChan)
    /\ \E o \in VehicleObjs \ Registered : vehicle[o].StopChan # NilChan


\* vehicle o is in the running engine with an open stop channel and a route,
\* not yet complete, over edges of the engine's graph
AwaitsWorker(o) ==
    /\ IsRunning
    /\ o \in Registered
    /\ ~IsClosed(vehicle[o].StopChan)
    /\ vehicle[o].Route # NoRoute
    /\ ~vehicle[o].Route.CompletedAt
    /\ \A k \in DOMAIN vehicle[o].Route.Edges :
          vehicle[o].Route.Edges[k] \in DOMAIN EngineGraph.Edges

\* a call has taken the vehicle or the engine away
TakenAway(o) == ~IsRunning \/ o \notin Registered

----------------------------------------------------------------------------
(* Further claims about the router *)

\* the call of Dijkstra has returned
DijkstraDone == dijkstraPc = "done" /\ dist # NoMap

\* C24: for every node v of the graph, Dijkstra(g, v, v) returns exactly one
\* route, with no edges, StartNode = EndNode = v and TotalDistance 0.
C24_Identity ==
    (DijkstraDone /\ start = end) =>
        routes = << [Edges |-> << >>, StartNode |-> start, EndNode |-> start,
                     TotalDistance |-> 0] >>

\* Dijkstra(g, v, v) has returned for a node v that has neighbours
C24_Witness ==
    /\ DijkstraDone
    /\ start = end
    /\ g.Nodes[start].Connections # {}
    /\ Len(routes) = 1


\* some sequence of edges of the graph leads from s to t
HasPath(graph, s, t) == ShortestDistance(graph, s, t) < Inf

\* C25: Dijkstra(g, start, end) returns the empty result exactly when start
\* differs from end and the graph has no path from start to end; a route is
\* never returned between nodes of different connected components.
C25_EmptyIffNoPath ==
    DijkstraDone =>
        /\ (routes = << >>) <=> (start # end /\ ~HasPath(g, start, end))
        /\ routes # << >> => end \in Reachable(g, {start})

\* no route was returned between two nodes of a graph with an edge that
\* joins neither component to the other
C25_Witness ==
    /\ DijkstraDone
    /\ routes = << >>
    /\ start # end
    /\ g.Nodes[start].Connections # {}


----------------------------------------------------------------------------
(* Claims about route assignment *)

\* the call has returned
AssignDone == assignPc = "done" /\ acall.fn # "none"
Assigned == AssignDone /\ ~assignErr

\* C26: after a successful assignment the vehicle's route has the router's
\* edges, StartNode = CurrentNode = spawn, EndNode = target,
\* CurrentEdgeIndex = 0 and CompletedAt unset; the position is the spawn
\* node's, the velocity (0,0), ProgressOnEdge 0; CurrentEdge is the first
\* edge (or empty), TargetNode the To endpoint of the first edge (or EndNode
\* when there are no edges), and the status is moving when the route has
\* edges and idle otherwise.
C26_AssignedFields ==
    Assigned =>
        /\ avehicle.Route.Edges = routes[1].Edges
        /\ avehicle.Route.StartNode = start
        /\ avehicle.Route.CurrentNode = start
        /\ avehicle.Route.EndNode = end
        /\ avehicle.Route.CurrentEdgeIndex = 0
        /\ ~avehicle.Route.CompletedAt
        /\ avehicle.State.CurrentPosition = apositions[start]
        /\ avehicle.State.Velocity = <<0, 0>>
        /\ avehicle.State.ProgressOnEdge = 0
        /\ IF Len(routes[1].Edges) > 0
           THEN /\ avehicle.State.CurrentEdge = routes[1].Edges[1]
                /\ avehicle.Route.TargetNode = g.Edges[routes[1].Edges[1]].To
                /\ avehicle.State.Status = "moving"
           ELSE /\ avehicle.State.CurrentEdge = NoEdge
                /\ avehicle.Route.TargetNode = end
                /\ avehicle.State.Status = "idle"

\* a route of two edges was assigned whose first edge is stored from the
\* spawn node to the next one
C26_Witness ==
    /\ Assigned
    /\ Len(avehicle.Route.Edges) = 2
    /\ g.Edges[avehicle.Route.Edges[1]].From = start
    /\ avehicle.Route.TargetNode # end


\* AssignVehicleRoute was called with AllowSameNode = false
SameNodeForbidden == acall.fn = "AssignVehicleRoute" /\ ~acall.AllowSameNode

\* C27: with AllowSameNode = false AssignVehicleRoute never succeeds with
\* an edgeless route: when it returns no error the assigned route has at
\* least one edge, StartNode differs from EndNode and the status is moving;
\* and when the selected spawn and target coincide it returns an error.
C27_NoEdgelessRoute ==
    /\ (Assigned /\ SameNodeForbidden) =>
          /\ Len(avehicle.Route.Edges) >= 1
          /\ avehicle.Route.StartNode # avehicle.Route.EndNode
          /\ avehicle.State.Status = "moving"
    /\ (AssignDone /\ SameNodeForbidden /\ start # AbsentNode /\ start = end) => assignErr

\* the random target fell on the spawn node after ten rejected draws, and
\* the call returned an error
C27_Witness ==
    /\ AssignDone
    /\ SameNodeForbidden
    /\ acall.TargetStrategy = "random"
    /\ start # AbsentNode
    /\ start = end
    /\ routes # << >>
    /\ assignErr


\* C28: whenever AssignVehicleRoute or AssignVehicleRouteWithNodes returns
\* an error (graph without nodes, start or end node absent, no route,
\* edgeless route with AllowSameNode = false) the vehicle's route and state
\* are as they were before the call; no step before the return writes them.
C28_ErrorLeavesVehicle ==
    [][(assignErr' \/ assignPc' # "done") => avehicle' = avehicle]_vars

\* no route joins the two nodes given, and the vehicle that had arrived
\* before the call is still as it was
C28_Witness ==
    /\ AssignDone
    /\ assignErr
    /\ acall.fn = "AssignVehicleRouteWithNodes"
    /\ start # end
    /\ routes = << >>
    /\ dist # NoMap
    /\ avehicle.State.Status = "arrived"
    /\ avehicle.State.ProgressOnEdge = ProgressOne


----------------------------------------------------------------------------
(* Further claims about the map generator *)

\* the attribute values of an edge
Attributes(e) ==
    [Length |-> e.Length, BaseSpeedLimit |-> e.BaseSpeedLimit,
     SurfaceQuality |-> e.SurfaceQuality, Bidirectional |-> e.Bidirectional]

Bijections(S, T) ==
    {f \in [S -> T] : (\A x, y \in S : x # y => f[x] # f[y]) /\ {f[x] : x \in S} = T}

\* the same edges by endpoints, up to a relabelling of the nodes, with
\* equal attribute values
StructurallyEqual(a, b) ==
    /\ Cardinality(DOMAIN a.Nodes) = Cardinality(DOMAIN b.Nodes)
    /\ Cardinality(DOMAIN a.Edges) = Cardinality(DOMAIN b.Edges)
    /\ \E relabel \in Bijections(DOMAIN a.Nodes, DOMAIN b.Nodes) :
       \E match \in Bijections(DOMAIN a.Edges, DOMAIN b.Edges) :
          \A k \in DOMAIN a.Edges :
             /\ {relabel[a.Edges[k].From], relabel[a.Edges[k].To]}
                   = {b.Edges[match[k]].From, b.Edges[match[k]].To}
             /\ Attributes(a.Edges[k]) = Attributes(b.Edges[match[k]])

\* C29: two runs of Generate with identical inputs return structurally
\* equal graphs: the same edges by endpoint multiset, up to a relabelling of
\* the nodes, and equal edge attribute values.
C29_Deterministic ==
    (genPc = "done" /\ previous # NoGraph) => StructurallyEqual(previous, mg)


\* C30: every edge of every generated graph, after connectivity repair and
\* weight variation, has Length > 0, BaseSpeedLimit > 0 and a SurfaceQuality
\* between 0.5 and 1.0.
C30_AttributeRanges ==
    (genPc = "done" /\ cfg.Algorithm \in {"rgg", "knn", "delaunay"}) =>
        \A k \in DOMAIN mg.Edges :
            /\ mg.Edges[k].Length > 0
            /\ mg.Edges[k].BaseSpeedLimit > 0
            /\ mg.Edges[k].SurfaceQuality >= 50
            /\ mg.Edges[k].SurfaceQuality <= 100

----------------------------------------------------------------------------
(* Claims about the telemetry sink *)

\* the sink has no room: the channel is nil, or its buffer is full and no
\* receiver is waiting on it
SinkFull ==
    \/ Events.nil
    \/ Len(Events.buf) >= Events.cap /\ consumer.pc # "parked"

\* C31: handing a sample to the sink never blocks: the select statement of
\* EmitPosition can always be taken; when the sink is full the call returns
\* an error, the sample is dropped and the channel's contents are unchanged;
\* when there is room the sample is enqueued (appended to the buffer, or
\* handed to the receiver waiting on the channel) and no error is returned.
C31_NeverBlocks ==
    /\ [](emit.pc = "select" => ENABLED EmitSelect)
    /\ [][EmitSelect =>
            IF SinkFull
            THEN /\ emit'.err
                 /\ Events' = Events
                 /\ consumer' = consumer
            ELSE /\ ~emit'.err
                 /\ \/ /\ Events'.buf = Append(Events.buf, emit.event)
                       /\ consumer' = consumer
                    \/ /\ consumer.pc = "parked"
                       /\ consumer' = [pc |-> "idle", taken |-> emit.event]
                       /\ Events' = Events]_vars

\* a sample was dropped at a full buffer
C31_Witness ==
    /\ emit.pc = "returned"
    /\ emit.err
    /\ Events.cap > 0
    /\ Len(Events.buf) = Events.cap
    /\ emit.event \notin {Events.buf[i] : i \in 1..Len(Events.buf)}

----------------------------------------------------------------------------
(* Further claims about the engine *)

\* vehicle o is registered in an engine that was stopped and started again
\* (only Stop closes the stop channel of a vehicle it leaves registered),
\* with a route, not yet complete, over edges of the engine's graph
Restarted(o) ==
    /\ IsRunning
    /\ o \in Registered
    /\ IsClosed(vehicle[o].StopChan)
    /\ vehicle[o].Route # NoRoute
    /\ ~vehicle[o].Route.CompletedAt
    /\ \A k \in DOMAIN vehicle[o].Route.Edges :
          vehicle[o].Route.Edges[k] \in DOMAIN EngineGraph.Edges

\* C32: after stop has returned and start is called again, every registered
\* vehicle whose route is incomplete is advanced by a live worker again and
\* eventually arrives, unless a further call stops the engine or removes it.
C32_RestartAdvances ==
    \A o \in VehicleObjs :
        [](Restarted(o) => <>(RouteComplete(o) \/ TakenAway(o)))

----------------------------------------------------------------------------
(* Claims about a journey *)

\* an update that takes the vehicle over a waypoint onto a further edge
WaypointTransition ==
    /\ \E delta \in JourneyDeltas : Drive(delta)
    /\ avehicle'.Route.CurrentEdgeIndex = avehicle.Route.CurrentEdgeIndex + 1
    /\ avehicle'.Route.CurrentEdgeIndex < Len(avehicle'.Route.Edges)

\* C33: for a vehicle following a route of the router over an undirected
\* graph, the position right after a waypoint transition to a further edge
\* is the position of route.currentNode, whichever way the endpoints of the
\* next edge are stored.
C33_PositionAtWaypoint ==
    [][WaypointTransition =>
         avehicle'.State.CurrentPosition = apositions[avehicle'.Route.CurrentNode]]_vars

RECURSIVE WalkNode(_, _, _)
\* the node a vehicle on route has reached after k of its edges: the start
\* node, and after each edge the endpoint that is not the node before
WalkNode(route, graph, k) ==
    IF k = 0 THEN route.StartNode
    ELSE LET before == WalkNode(route, graph, k - 1)
             edge   == graph.Edges[route.Edges[k]]
         IN  IF edge.From = before THEN edge.To ELSE edge.From

\* an update that takes the vehicle to the end of an edge
EdgePassed ==
    /\ \E delta \in JourneyDeltas : Drive(delta)
    /\ avehicle'.Route.CurrentEdgeIndex = avehicle.Route.CurrentEdgeIndex + 1

\* C34: when a vehicle following a route of the router completes it,
\* route.currentNode equals route.endNode, and after each waypoint transition
\* currentNode is the node of the route's walk the vehicle has just reached.
C34_CurrentNodeOnWalk ==
    [][EdgePassed =>
         /\ avehicle'.Route.CurrentNode =
                WalkNode(avehicle.Route, g, avehicle'.Route.CurrentEdgeIndex)
         /\ avehicle'.Route.CompletedAt =>
                avehicle'.Route.CurrentNode = avehicle'.Route.EndNode]_vars

----------------------------------------------------------------------------
(* Further claims about the kinematic update *)

\* the vehicle of the multi-edge scenario: the route A-B, B-C at 10 m/s on
\* both edges, updated with dt = 1.0 only
MultiEdgeScenario ==
    /\ kgraph = KinematicGraph(10, 10)
    /\ kv.Route # NoRoute
    /\ kv.Route.Edges = <<"A-B", "B-C">>
    /\ khistory.ticking

\* C35: one update advances the vehicle by at most one edge: for any dt
\* currentEdgeIndex grows by at most 1 per call, the progress beyond the end of
\* the edge is discarded (progressOnEdge = 0 on the next edge), a route of n
\* edges is not completed by fewer than n calls, and two edges of 10 ticks
\* each are completed at tick 20, not earlier.
C35_OneEdgePerCall ==
    /\ [][kv.Route # NoRoute =>
            /\ kv'.Route.CurrentEdgeIndex <= kv.Route.CurrentEdgeIndex + 1
            /\ (/\ kv'.Route.CurrentEdgeIndex = kv.Route.CurrentEdgeIndex + 1
                /\ kv'.Route.CurrentEdgeIndex < Len(kv.Route.Edges)
                /\ kv.Route.Edges[kv'.Route.CurrentEdgeIndex + 1] \in DOMAIN kgraph.Edges)
               => kv'.State.ProgressOnEdge = 0
            /\ (~kv.Route.CompletedAt /\ kv'.Route.CompletedAt)
               => khistory'.calls >= Len(kv.Route.Edges)]_vars
    /\ [](MultiEdgeScenario => (kv.Route.CompletedAt <=> khistory.calls >= 20))

\* the multi-edge scenario right after its twentieth tick
C35_Witness ==
    /\ MultiEdgeScenario
    /\ khistory.calls = 20
    /\ kv.Route.CompletedAt
    /\ kv.Route.CurrentEdgeIndex = 2

----------------------------------------------------------------------------
(* Claims about the engine and its readers *)

\* worker w waits: only vehicle.Mutex.Lock() can make a worker wait
WorkerWaits(w) == workers[w].pc = "lock" /\ ~CanLockVehicle(workers[w].vehicle)

\* the reader of the test waits for a vehicle's mutex
ListerWaits == reader.pc = "lock" /\ ~CanLockVehicle(reader.encoding)

\* the holder h of a vehicle's mutex is about to release it: a worker inside
\* the update, or the reader between Lock and Unlock
Releases(h) ==
    IF h = Lister THEN reader.pc = "read"
    ELSE h \in Slots /\ workers[h].pc = "update"

\* C36: no interleaving of start, stop, addVehicle, removeVehicle, the list
\* readers and the worker ticks reaches a deadlock.  Nobody waits for somebody
\* who waits: a worker or reader waiting for a vehicle's mutex waits for a
\* holder that is about to release it, and while Stop holds the engine's write
\* lock and waits for the workers no reader holds the read lock or a vehicle's
\* mutex, and a live worker can take its next step.
C36_NoDeadlock ==
    /\ \A w \in Slots : WorkerWaits(w) => Releases(vmutex[workers[w].vehicle])
    /\ ListerWaits => Releases(vmutex[reader.encoding])
    /\ reader.pc # "idle" => (Mutex.readers > 0 /\ Mutex.writer = "free")
    /\ \A o \in VehicleObjs : vmutex[o] # 0 => Releases(vmutex[o])
    /\ Mutex.writer = "stop" =>
         /\ Mutex.readers = 0
         /\ \A o \in VehicleObjs : vmutex[o] # Lister
         /\ (wg = 0 \/ \E w \in Slots : Live(w) /\ ~WorkerWaits(w))

\* Stop waits for two workers of one vehicle, one of them waiting for the
\* vehicle's mutex while the other updates the vehicle
C36_Witness ==
    /\ Mutex.writer = "stop"
    /\ \E w \in Slots : WorkerWaits(w)

----------------------------------------------------------------------------
(* Further claims about the connectivity repair *)

\* the least distance between a node of component c1 and a node of c2
CrossDistance(graph, c1, c2) ==
    Min({distance(graph.Nodes[a].Position, graph.Nodes[b].Position) :
           a \in Range(c1), b \in Range(c2)})

\* C37: every edge the repair adds between two components joins a node of
\* the one and a node of the other whose distance is the least over all pairs
\* of nodes across the two components, also when several pairs are at that
\* least distance.
C37_ClosestPair ==
    [][RepairConnect =>
         \A k \in DOMAIN mg'.Edges \ DOMAIN mg.Edges :
            /\ mg'.Edges[k].From \in Range(components[compIdx + 1])
            /\ mg'.Edges[k].To \in Range(components[compIdx + 2])
            /\ mg'.Edges[k].Length =
                 CrossDistance(mg, components[compIdx + 1], components[compIdx + 2])]_vars

\* the edges a step adds to mg
AddedEdges == DOMAIN mg'.Edges \ DOMAIN mg.Edges

\* a bound on the number of steps the call can still take
RepairVariant ==
    CASE repairPc = "find" -> NumMapNodes + 1
      [] repairPc = "loop" -> Len(components) - compIdx
      [] OTHER -> 0

\* C38: EnsureGraphConnectivity terminates on every graph (a call that has
\* not returned can take its next step: the search has a result and the loop
\* finds the two components it joins; and every step lowers a bound on the
\* steps that remain) and adds at most
\* (#components - 1) edges, each joining two components that were different
\* before; it never removes or modifies an existing edge or adjacency; and on
\* a connected or an empty graph it changes nothing.
C38_RepairTerminates ==
    /\ [](repairPc = "find" =>
            (DOMAIN mg.Nodes = {} \/ findConnectedComponents(mg, {}, << >>) # {}))
    /\ [](repairPc = "loop" =>
            (compIdx < LastPair(components) =>
               {compIdx + 1, compIdx + 2} \subseteq DOMAIN components))
    /\ [](repairPc \in {"find", "loop", "done"})
    /\ [][RepairVariant' < RepairVariant]_vars
    /\ [][RepairFind =>
            Len(components') = Cardinality(ConnectedComponents(mg))]_vars
    /\ [](compIdx = 0 \/ compIdx <= Len(components) - 1)
    /\ [][mg' # mg =>
            /\ Len(components) >= 2
            /\ compIdx' = compIdx + 1
            /\ Cardinality(AddedEdges) = 1
            /\ \A k \in AddedEdges :
                  Reachable(mg, {mg'.Edges[k].From}) # Reachable(mg, {mg'.Edges[k].To})
            /\ \A k \in DOMAIN mg.Edges :
                  k \in DOMAIN mg'.Edges /\ mg'.Edges[k] = mg.Edges[k]
            /\ DOMAIN mg'.Nodes = DOMAIN mg.Nodes
            /\ \A n \in DOMAIN mg.Nodes :
                  /\ mg'.Nodes[n].Position = mg.Nodes[n].Position
                  /\ mg.Nodes[n].Connections \subseteq mg'.Nodes[n].Connections]_vars

\* the call has returned after adding two edges to a graph of three components
C38_Witness ==
    /\ repairPc = "done"
    /\ Len(components) = 3
    /\ compIdx = 2
    /\ Cardinality(ConnectedComponents(mg)) = 1

----------------------------------------------------------------------------
(* Further claims about a journey *)

\* the assignment has returned without error: the vehicle is on its journey
JourneyBegun == assignPc = "done" /\ ~assignErr

\* C39: for a vehicle initialised by route assignment and afterwards
\* modified only by kinematic updates, status = arrived if and only if
\* completedAt is set, and once the route is complete every update leaves
\* completedAt set and the status arrived (never moving again).
C39_ArrivedIffCompleted ==
    /\ [](JourneyBegun =>
            (avehicle.State.Status = "arrived" <=> avehicle.Route.CompletedAt))
    /\ [][(JourneyBegun /\ avehicle.Route.CompletedAt) =>
            (avehicle'.Route.CompletedAt /\ avehicle'.State.Status = "arrived")]_vars
    /\ [][(JourneyBegun /\ avehicle.State.Status = "arrived") =>
            avehicle'.State.Status = "arrived"]_vars

\* a vehicle that has arrived at the end of a route of two edges
C39_Witness ==
    /\ JourneyBegun
    /\ avehicle.Route.CompletedAt
    /\ avehicle.State.Status = "arrived"
    /\ avehicle.Route.CurrentEdgeIndex = 2

----------------------------------------------------------------------------
(* Claims about the indices into the route *)

\* the positions of route.Edges that the code counts from 0
Indices(route) == 0..(Len(route.Edges) - 1)

\* the index emitTelemetry reads route.Edges at when it sees this current
\* edge and this currentEdgeIndex; -1 when it reads none
FallbackIndex(currentEdge, index) ==
    IF currentEdge = NoEdge /\ index > 0 THEN index - 1 ELSE 0 - 1

\* C40: in every reachable state of a vehicle 0 <= currentEdgeIndex <=
\* len(route.edges); the update reads route.edges only at an index inside the
\* route, and so does the fallback of the telemetry (edges[currentEdgeIndex-1]
\* when currentEdge is empty), also when it reads the vehicle while an update
\* is writing it.
C40_IndexInRange ==
    /\ [](kv.Route # NoRoute =>
            /\ kv.Route.CurrentEdgeIndex >= 0
            /\ kv.Route.CurrentEdgeIndex <= Len(kv.Route.Edges)
            /\ (~kv.Route.CompletedAt /\ kv.Route.CurrentEdgeIndex < Len(kv.Route.Edges))
                 => kv.Route.CurrentEdgeIndex \in Indices(kv.Route)
            /\ emitTelemetry(kv).emitted =>
                 LET i == FallbackIndex(kv.State.CurrentEdge, kv.Route.CurrentEdgeIndex)
                 IN  i >= 0 =>
                       /\ i \in Indices(kv.Route)
                       /\ emitTelemetry(kv).EdgeID = kv.Route.Edges[i + 1])
    /\ [][(kv.Route # NoRoute /\ Len(kv.Route.Edges) > 0) =>
            \A currentEdge \in {kv.State.CurrentEdge, kv'.State.CurrentEdge} :
               \A index \in {kv.Route.CurrentEdgeIndex, kv'.Route.CurrentEdgeIndex} :
                  FallbackIndex(currentEdge, index) >= 0 =>
                     FallbackIndex(currentEdge, index) \in Indices(kv.Route)]_vars

\* the vehicle has passed A-B, its next edge X-Y is not in the graph, and the
\* telemetry falls back to the edge before currentEdgeIndex
C40_Witness ==
    /\ kv.Route # NoRoute
    /\ kv.Route.Edges = <<"A-B", "X-Y">>
    /\ kv.Route.CurrentEdgeIndex = 1
    /\ kv.State.CurrentEdge = NoEdge
    /\ emitTelemetry(kv).EdgeID = "A-B"

====
